---- MODULE Spec2Model ----
(***************************************************************************)
(* A model of the baseline JPEG decoder of src/src/jpeg_decoder:           *)
(*   reader.py   BitStream (get_bit, match_huffman, read_value, read_dc,   *)
(*               read_ac), read_mcu, read_mcus                             *)
(*   marker.py   parse_dht, parse_sof0, parse_sos                          *)
(*   decoder.py  MCUWrap.toRGB (sample addressing), decoder (tiling)       *)
(*                                                                         *)
(* The file object is the pair (f, pos): f holds the bytes, pos is the     *)
(* cursor (number of bytes consumed).  In the entropy-decoding and bit     *)
(* specifications f is the scan payload, fixed by Init.  In the segment    *)
(* parser specifications the bytes are drawn when they are read, so f is   *)
(* the part of the file consumed so far and pos = Len(f).                  *)
(*                                                                         *)
(* Python floats that hold integers (coefficients, DC predictors) are      *)
(* modelled as integers: every value met here is far below 2^53.           *)
(***************************************************************************)
EXTENDS Integers, Sequences, FiniteSets, TLC

VARIABLES
    f, pos,                 \* the open file: its bytes and its cursor
    current_byte, bit_count, last_dc,   \* the fields of BitStream
    bits_out,               \* history: the bits get_bit has returned
    pc, err,                \* control position; the exception raised, or "none"
    metadata,               \* JPEGMetadata
    length,                 \* the length argument of the running segment parser
    bytes_remaining,        \* parse_dht: bytes_remaining
    num_components, comp_n, \* parse_sof0 / parse_sos: num_components and the loop's i
    max_h_sampling, max_v_sampling,     \* parse_sof0: the running maxima
    eof,                    \* history: a read found the file exhausted
    seg,                    \* history: what the running parser read from the wire
    loop_r, loop_c,         \* read_mcus: r, c
    loop_i, loop_v, loop_h, \* read_mcu: i, v, h
    idx, block,             \* read_mcu: idx and the block being filled
    row_blocks, comp_data, mcu, row_mcus, mcus,   \* read_mcu / read_mcus lists
    dc_diffs,               \* history: per component, the DC differences decoded
    stores,                 \* history: linear indices stored into the current block
    ac_exit,                \* history: how the AC loop of the last block ended
                            \* ("dropped": on a symbol of size > 0 it did not store)
    img,                    \* decoder: the Image (width, height)
    written,                \* history: per pixel, how many times decoder wrote it
    attempts,               \* history: the pixel positions the last tile write touched
    mcu_width_number, mcu_height_number,    \* decoder: the MCU-grid counts
    dec_h, dec_w,           \* decoder: h, w
    quantization_tables,    \* JPEGMetadata.quantization_tables
    app_info,               \* JPEGMetadata.app_info
    marker,                 \* marker_detector: marker
    markers_seen,           \* history: per iteration of the walk, the marker read (-1: no marker)
    cut,                    \* history: the marker of the segment the file ended in, or -1
    tables_loaded,          \* history: the (class, id) of the tables segments have stored
    returned,               \* history: per call on the BitStream, its argument and its result
    stages,                 \* history: the methods of MCUWrap that have run, in order
    raw_mcu,                \* history: the MCU as it was handed to MCUWrap
    sampled                 \* history: the sample indices toRGB used per tile row and column

fileVars == <<f, pos>>
bsVars == <<current_byte, bit_count, last_dc, bits_out>>
parseVars == <<length, bytes_remaining, num_components, comp_n, max_h_sampling,
               max_v_sampling, eof, seg>>
scanVars == <<loop_r, loop_c, loop_i, loop_v, loop_h, idx, block, row_blocks,
              comp_data, mcu, row_mcus, mcus, dc_diffs, stores, ac_exit>>
decVars == <<img, written, attempts, mcu_width_number, mcu_height_number, dec_h, dec_w>>
walkVars == <<quantization_tables, app_info, marker, markers_seen, cut, tables_loaded>>
histVars == <<returned, stages, raw_mcu, sampled>>
vars == <<fileVars, bsVars, pc, err, metadata, parseVars, scanVars, decVars, walkVars,
         histVars>>

---------------------------------------------------------------------------
(* Bounds of the model.                                                    *)

\* the longest scan payload, in bytes
MaxPayload == 3

\* the most symbols one DHT segment holds
MaxSyms == 3

\* code lengths 1..MaxCodeLen, and length 16, may have a non-zero count in a DHT
MaxCodeLen == 4

\* the most component records a SOF0 or SOS segment declares
MaxNf == 3

\* the largest declared width and height of the frames decoder is run on
MaxDim == 17

\* the most calls a client makes: of read_value on one stream, of
\* inverse_zigzag_scan on one MCU
MaxCalls == 2

\* the largest sampling factor of those frames
MaxSamp == 3

\* the most iterations of the marker loop that read a byte
MaxWalk == 2

---------------------------------------------------------------------------
(* Integer helpers for the shifts and masks of the code.                   *)

Pow2(n) == 2 ^ n

\* (x >> n) & 1
BitOf(x, n) == (x \div Pow2(n)) % 2

\* (x >> 4) & 0x0F
UpperNibble(x) == (x \div 16) % 16

\* x & 0x0F
LowerNibble(x) == x % 16

Max(a, b) == IF a >= b THEN a ELSE b

RECURSIVE SumSeq(_)
SumSeq(s) == IF s = <<>> THEN 0 ELSE Head(s) + SumSeq(Tail(s))

IsPrefix(s, t) == Len(s) <= Len(t) /\ SubSeq(t, 1, Len(s)) = s

\* all sequences over S of length at most n
RECURSIVE SeqsUpTo(_, _)
SeqsUpTo(S, n) ==
    IF n = 0 THEN {<<>>}
    ELSE LET shorter == SeqsUpTo(S, n - 1)
         IN  shorter \cup {Append(s, x) : s \in {t \in shorter : Len(t) = n - 1}, x \in S}

---------------------------------------------------------------------------
(* JPEGMetadata and its parts (primitives.py).                             *)

ComponentInfo(hs, vs, q) ==
    [horizontal_sampling |-> hs, vertical_sampling |-> vs, quantization_table_id |-> q]

\* the value JPEGMetadata() constructs
DefaultMetadata ==
    [sof_info |->
        [precision |-> 0, height |-> 0, width |-> 0,
         components |-> <<ComponentInfo(0, 0, 0), ComponentInfo(0, 0, 0),
                          ComponentInfo(0, 0, 0)>>,
         max_horizontal_sampling |-> 0, max_vertical_sampling |-> 0],
     huffman_tables |-> [dc_tables |-> << <<>>, <<>> >>, ac_tables |-> << <<>>, <<>> >>],
     table_mapping |-> << <<0, 0>>, <<0, 0>>, <<0, 0>> >>]

---------------------------------------------------------------------------
(* BitStream (reader.py).  The operators below thread a reader state       *)
(*   [pos, current_byte, bit_count, last_dc, out, failed, val, diff]       *)
(* through the calls: failed is the exception raised so far ("none" when   *)
(* there is none) and val is the value the last call returned.             *)

\* the bytes the scan payloads are made of
PayloadBytes == {0, 255, 160, 85, 217}

Reader ==
    [pos |-> pos, current_byte |-> current_byte, bit_count |-> bit_count,
     last_dc |-> last_dc, out |-> bits_out, failed |-> "none", val |-> 0, diff |-> 0]

Raise(rs, e) == [rs EXCEPT !.failed = e]

Return(rs, x) == [rs EXCEPT !.val = x]

\* an exhausted source read as a byte of zeros
ZeroFill(rs) ==
    [rs EXCEPT !.current_byte = 0, !.bit_count = 7, !.out = Append(@, 0), !.val = 0]

\* f.read(1) returned nothing: raise EOFError("Unexpected End of Stream")
EndOfStream(rs) == Raise(rs, "EOFError")

\* BitStream.get_bit, with its follower byte after 0xFF dropped whatever it is
GetBit(rs) ==
    IF rs.failed # "none" THEN rs
    ELSE IF rs.bit_count = 0
    THEN IF rs.pos >= Len(f)
         THEN EndOfStream(rs)
         ELSE LET b == f[rs.pos + 1]
                  p == rs.pos + 1
                  bit == BitOf(b, 7)
              IN  [rs EXCEPT !.current_byte = b,
                             !.pos = IF b = 255 /\ p < Len(f) THEN p + 1 ELSE p,
                             !.bit_count = 7,
                             !.out = Append(@, bit),
                             !.val = bit]
    ELSE LET bit == BitOf(rs.current_byte, rs.bit_count - 1)
         IN  [rs EXCEPT !.bit_count = @ - 1, !.out = Append(@, bit), !.val = bit]

\* while length < 15
WhileLengthShort(len) == len < 15

\* while length < 16
WhileLength(len) == len < 16

\* BitStream.match_huffman: the while loop from (length, code) on
RECURSIVE MatchFrom(_, _, _, _)
MatchFrom(rs, table, len, code) ==
    IF rs.failed # "none" THEN rs
    ELSE IF ~WhileLength(len) THEN Raise(rs, "ValueError")
    ELSE LET g == GetBit(rs)
             len1 == len + 1
             code1 == code * 2 + g.val
         IN  IF g.failed # "none" THEN g
             ELSE IF <<len1, code1>> \in DOMAIN table THEN Return(g, table[<<len1, code1>>])
             ELSE MatchFrom(g, table, len1, code1)

MatchHuffman(rs, table) == MatchFrom(rs, table, 0, 0)

\* the loop of read_value: n more bits shifted into current_val
RECURSIVE ReadBits(_, _, _)
ReadBits(rs, n, current_val) ==
    IF rs.failed # "none" THEN rs
    ELSE IF n = 0 THEN Return(rs, current_val)
    ELSE LET g == GetBit(rs)
         IN  IF g.failed # "none" THEN g ELSE ReadBits(g, n - 1, current_val * 2 + g.val)

\* current_val - (1 << length)
TwosComplement(current_val, len) == current_val - Pow2(len)

\* current_val - ((1 << length) - 1)
Negative(current_val, len) == current_val - (Pow2(len) - 1)

\* BitStream.read_value
ReadValue(rs, len) ==
    IF rs.failed # "none" THEN rs
    ELSE IF len = 0 THEN Return(rs, 0)
    ELSE LET first == GetBit(rs)
             all == ReadBits(first, len - 1, first.val)
         IN  IF all.failed # "none" THEN all
             ELSE IF first.val = 1 THEN all
             ELSE Return(all, Negative(all.val, len))

\* self.last_dc[component_id] += diff
Overwrite(old, diff) == diff

Accumulate(old, diff) == old + diff

\* BitStream.read_dc; the field diff tells the difference decoded
ReadDc(rs, table, component_id) ==
    LET sym == MatchHuffman(rs, table)
        d == IF sym.failed # "none" THEN sym
             ELSE IF sym.val = 0 THEN Return(sym, 0)
             ELSE ReadValue(sym, sym.val)
    IN  IF d.failed # "none" THEN d
        ELSE LET dc == Accumulate(d.last_dc[component_id + 1], d.val)
             IN  [d EXCEPT !.last_dc[component_id + 1] = dc, !.diff = d.val, !.val = dc]

\* BitStream.read_ac: val is the pair (zeros, value)
ReadAc(rs, table) ==
    LET sym == MatchHuffman(rs, table)
    IN  IF sym.failed # "none" THEN sym
        ELSE IF sym.val = 0 THEN Return(sym, <<-1, 0>>)
        ELSE IF sym.val = 240 THEN Return(sym, <<16, 0>>)
        ELSE LET v == ReadValue(sym, LowerNibble(sym.val))
             IN  IF v.failed # "none" THEN v
                 ELSE Return(v, <<sym.val \div 16, v.val>>)

---------------------------------------------------------------------------
(* Values of the variables a specification does not use.                   *)

IdleFile == f = <<>> /\ pos = 0

IdleBitStream ==
    /\ current_byte = 0
    /\ bit_count = 0
    /\ last_dc = <<0, 0, 0>>
    /\ bits_out = <<>>

IdleParse ==
    /\ length = 0 /\ bytes_remaining = 0
    /\ num_components = 0 /\ comp_n = 0
    /\ max_h_sampling = 0 /\ max_v_sampling = 0
    /\ eof = FALSE
    /\ seg = <<>>

IdleScan ==
    /\ loop_r = 0 /\ loop_c = 0 /\ loop_i = 0 /\ loop_v = 0 /\ loop_h = 0
    /\ idx = 0 /\ block = <<>>
    /\ row_blocks = <<>> /\ comp_data = <<>> /\ mcu = <<>>
    /\ row_mcus = <<>> /\ mcus = <<>>
    /\ dc_diffs = << <<>>, <<>>, <<>> >>
    /\ stores = <<>>
    /\ ac_exit = "none"

IdleDecoder ==
    /\ img = [width |-> 0, height |-> 0]
    /\ written = <<>>
    /\ attempts = {}
    /\ mcu_width_number = 0 /\ mcu_height_number = 0
    /\ dec_h = 0 /\ dec_w = 0

IdleHist == returned = <<>> /\ stages = <<>> /\ raw_mcu = <<>> /\ sampled = <<>>

\* the dimension of a quantization table and the number of tables
TableLen == 64

TableCount == 4

\* [[0.0] * 64 for _ in range(4)]
DefaultQuantizationTables == [t \in 1..TableCount |-> [k \in 1..TableLen |-> 0]]

\* AppInfo()
DefaultAppInfo ==
    [identifier |-> <<0, 0, 0, 0, 0>>, version_major_id |-> 0, version_minor_id |-> 0,
     units |-> 0, x_density |-> 0, y_density |-> 0, x_thumbnail |-> 0, y_thumbnail |-> 0]

IdleWalk ==
    /\ quantization_tables = DefaultQuantizationTables
    /\ app_info = DefaultAppInfo
    /\ marker = 0
    /\ markers_seen = <<>>
    /\ cut = -1
    /\ tables_loaded = {}

---------------------------------------------------------------------------
(* SpecBits: a client calls BitStream.get_bit on a scan payload until the  *)
(* stream raises.                                                          *)

InitBits ==
    /\ f \in SeqsUpTo(PayloadBytes, MaxPayload)
    /\ pos = 0
    /\ IdleBitStream
    /\ pc = "bits" /\ err = "none"
    /\ metadata = DefaultMetadata
    /\ IdleParse /\ IdleScan /\ IdleDecoder /\ IdleHist /\ IdleWalk

GetBitStep ==
    /\ pc = "bits" /\ err = "none"
    /\ LET g == GetBit(Reader)
       IN  /\ pos' = g.pos
           /\ current_byte' = g.current_byte
           /\ bit_count' = g.bit_count
           /\ bits_out' = g.out
           /\ err' = g.failed
    /\ UNCHANGED <<f, last_dc, pc, metadata, parseVars, scanVars, decVars, histVars, walkVars>>

NextBits == GetBitStep

SpecBits == InitBits /\ [][NextBits]_vars

\* the bits, most significant first, of a byte sequence
RECURSIVE BitsOf(_)
BitsOf(s) ==
    IF s = <<>> THEN <<>>
    ELSE <<BitOf(Head(s), 7), BitOf(Head(s), 6), BitOf(Head(s), 5), BitOf(Head(s), 4),
           BitOf(Head(s), 3), BitOf(Head(s), 2), BitOf(Head(s), 1), BitOf(Head(s), 0)>>
         \o BitsOf(Tail(s))

\* a byte sequence with each 0x00 that immediately follows a 0xFF removed
RECURSIVE Destuff(_)
Destuff(s) ==
    IF s = <<>> THEN <<>>
    ELSE IF Len(s) >= 2 /\ s[1] = 255 /\ s[2] = 0
         THEN <<255>> \o Destuff(SubSeq(s, 3, Len(s)))
         ELSE <<s[1]>> \o Destuff(Tail(s))

\* C1: the bits get_bit returns are the bits, most significant first, of the
\* payload with each 0x00 after a 0xFF removed: a prefix of them while the
\* stream yields bits, all of them once it is exhausted.
DestuffedBits ==
    /\ IsPrefix(bits_out, BitsOf(Destuff(f)))
    /\ (pc = "bits" /\ err = "EOFError") => bits_out = BitsOf(Destuff(f))

\* every 0xFF of the payload is followed by 0x00 or ends the payload
RECURSIVE WellStuffed(_)
WellStuffed(s) ==
    IF s = <<>> THEN TRUE
    ELSE IF s[1] = 255
         THEN Len(s) = 1 \/ (s[2] = 0 /\ WellStuffed(SubSeq(s, 3, Len(s))))
         ELSE WellStuffed(Tail(s))

\* On payloads whose every 0xFF is followed by 0x00 get_bit does deliver the
\* destuffed bits (the part of C1 the code keeps).
DestuffedBitsWhenWellStuffed ==
    (pc = "bits" /\ WellStuffed(f)) => DestuffedBits

\* among the first n bytes of s, read as get_bit reads them (a byte, and after
\* a 0xFF its follower), some 0xFF has a follower other than 0x00
RECURSIVE NonZeroFollower(_, _)
NonZeroFollower(s, n) ==
    IF n < 2 \/ Len(s) < 2 THEN FALSE
    ELSE IF s[1] = 255
         THEN s[2] # 0 \/ NonZeroFollower(SubSeq(s, 3, Len(s)), n - 2)
         ELSE NonZeroFollower(Tail(s), n - 1)

\* C15: once get_bit has read a 0xFF and a follower byte other than 0x00, the
\* stream has failed with a stuffing error: it never goes on with the bytes
\* behind the follower.
CorruptStuffingRaises ==
    (pc = "bits" /\ NonZeroFollower(f, pos)) => err = "CorruptStuffing"

---------------------------------------------------------------------------
(* parse_dht (marker.py).  One action is one iteration of its while loop:  *)
(* a table_info byte, sixteen counts, the symbols, the code assignment and *)
(* the store.  seg records the tables read: [info, counts, symbols].       *)

\* a dict: a function whose domain is the set of its keys
EmptyDict == <<>>

\* d[k] = x
Put(d, k, x) == [y \in (DOMAIN d) \cup {k} |-> IF y = k THEN x ELSE d[y]]

\* code += 1, after a symbol received its code
NoIncrement(code) == code

AfterSymbol(code) == code + 1

\* code <<= 1, after the symbols of one bit length
NoShift(code) == code

AfterLength(code) == code * 2

\* the two nested for loops of parse_dht, from (bit_length, the n-th code of it) on:
\* nread is the number of symbols read so far
RECURSIVE AssignCodes(_, _, _, _, _, _, _)
AssignCodes(code_counts, symbols, bit_length, n, code, huffman_dict, nread) ==
    IF bit_length = 16 THEN huffman_dict
    ELSE IF n < code_counts[bit_length + 1]
    THEN AssignCodes(code_counts, symbols, bit_length, n + 1, AfterSymbol(code),
                     Put(huffman_dict, <<bit_length + 1, code>>, symbols[nread + 1]),
                     nread + 1)
    ELSE AssignCodes(code_counts, symbols, bit_length + 1, 0, AfterLength(code),
                     huffman_dict, nread)

\* the huffman_dict parse_dht builds from sixteen counts and the symbols
BuildHuffmanDict(code_counts, symbols) ==
    AssignCodes(code_counts, symbols, 0, 0, 0, EmptyDict, 0)

\* the store at the end of an iteration; table ids other than 0 and 1 are outside
\* the two-element lists and make the assignment raise IndexError
StoreTable(md, table_info, huffman_dict) ==
    IF UpperNibble(table_info) = 0
    THEN [md EXCEPT !.huffman_tables.dc_tables[LowerNibble(table_info) + 1] = huffman_dict]
    ELSE [md EXCEPT !.huffman_tables.ac_tables[LowerNibble(table_info) + 1] = huffman_dict]

\* the table_info bytes drawn: DC 0, AC 0, AC 1, DC with the id 2
TableInfos == {0, 16, 17, 2}

\* the symbol bytes drawn
SymbolBytes == {0, 17}

CodeLens == (1..MaxCodeLen) \cup {16}

CountsFrom(picks) ==
    [l \in 1..16 |-> Cardinality({k \in 1..Len(picks) : picks[k] = l})]

\* the count vectors drawn: at most n symbols, on the lengths of CodeLens
CountVectors(n) == {CountsFrom(p) : p \in SeqsUpTo(CodeLens, n)}

SymbolsRead == SumSeq([k \in 1..Len(seg) |-> Len(seg[k].symbols)])

InitDht ==
    /\ IdleFile /\ IdleBitStream /\ IdleScan /\ IdleDecoder /\ IdleHist /\ IdleWalk
    /\ pc = "dht" /\ err = "none"
    /\ metadata = DefaultMetadata
    /\ length \in {2, 2 + 17, 2 + 17 + MaxSyms}
    /\ bytes_remaining = length - 2
    /\ num_components = 0 /\ comp_n = 0
    /\ max_h_sampling = 0 /\ max_v_sampling = 0
    /\ eof = FALSE
    /\ seg = <<>>

\* one iteration of the while loop, the file holding all its bytes
DhtTable ==
    /\ pc = "dht" /\ err = "none"
    /\ bytes_remaining > 0
    /\ \E table_info \in TableInfos, code_counts \in CountVectors(MaxSyms - SymbolsRead) :
         \E symbols \in [1..SumSeq(code_counts) -> SymbolBytes] :
            LET huffman_dict == BuildHuffmanDict(code_counts, symbols)
                wire == <<table_info>> \o code_counts \o symbols
            IN  /\ f' = f \o wire
                /\ pos' = pos + Len(wire)
                /\ bytes_remaining' = bytes_remaining - 1 - 16 - Len(symbols)
                /\ UNCHANGED <<num_components, comp_n, max_h_sampling, max_v_sampling, eof>>
                /\ seg' = Append(seg, [info |-> table_info, counts |-> code_counts,
                                       symbols |-> symbols])
                /\ IF LowerNibble(table_info) < 2
                   THEN /\ metadata' = StoreTable(metadata, table_info, huffman_dict)
                        /\ err' = "none"
                   ELSE /\ metadata' = metadata
                        /\ err' = "IndexError"
    /\ UNCHANGED <<length, pc, bsVars, scanVars, decVars, histVars, walkVars>>

\* the file ends inside the iteration: read_u8 raises before anything is stored
DhtTruncated ==
    /\ pc = "dht" /\ err = "none"
    /\ bytes_remaining > 0
    /\ err' = "IOError"
    /\ eof' = TRUE
    /\ UNCHANGED <<fileVars, pc, metadata, length, bytes_remaining, num_components, comp_n,
                   max_h_sampling, max_v_sampling, seg, bsVars, scanVars, decVars, histVars, walkVars>>

\* the while loop ends and parse_dht returns
DhtReturn ==
    /\ pc = "dht" /\ err = "none"
    /\ bytes_remaining <= 0
    /\ pc' = "dht_done"
    /\ UNCHANGED <<fileVars, err, metadata, parseVars, bsVars, scanVars, decVars, histVars, walkVars>>

NextDht == DhtTable \/ DhtTruncated \/ DhtReturn

SpecDht == InitDht /\ [][NextDht]_vars

\* the table slot a table_info byte names
Slot(md, table_info) ==
    IF UpperNibble(table_info) = 0
    THEN md.huffman_tables.dc_tables[LowerNibble(table_info) + 1]
    ELSE md.huffman_tables.ac_tables[LowerNibble(table_info) + 1]

\* a table has just been read and stored
TableStored == pc \in {"dht", "dht_done"} /\ err = "none" /\ seg # <<>>

LastTable == seg[Len(seg)]

\* the canonical code of the n-th (from 0) symbol of length l, in closed form
CanonicalStart(counts, l) == SumSeq([j \in 1..(l - 1) |-> counts[j] * Pow2(l - j)])

SymbolsBefore(counts, l) == SumSeq([j \in 1..(l - 1) |-> counts[j]])

CanonicalKeys(counts) ==
    UNION {{<<l, CanonicalStart(counts, l) + n>> : n \in 0..(counts[l] - 1)} : l \in 1..16}

\* the (length, code) -> symbol map of the canonical code of counts and symbols
Canonical(counts, symbols) ==
    [k \in CanonicalKeys(counts) |->
        symbols[SymbolsBefore(counts, k[1]) + (k[2] - CanonicalStart(counts, k[1])) + 1]]

CodesOfLength(d, l) == {k[2] : k \in {y \in DOMAIN d : y[1] = l}}

FirstCode(d, l) == CHOOSE x \in CodesOfLength(d, l) : \A y \in CodesOfLength(d, l) : x <= y

LastCode(d, l) == CHOOSE x \in CodesOfLength(d, l) : \A y \in CodesOfLength(d, l) : x >= y

\* C7: the table parse_dht stores is the canonical code of the counts and symbols
\* read: the counter starts at 0 at length 1, the symbols of one length have
\* consecutive codes in wire order, the first code of length l+1 is
\* (last code of length l + 1) << 1, and the map is stored in dc_tables when the
\* class nibble is 0, in ac_tables when it is 1, under the id of the lower nibble.
CanonicalCodes ==
    TableStored =>
        LET t == LastTable
            id == LowerNibble(t.info)
            d == IF UpperNibble(t.info) = 0 THEN metadata.huffman_tables.dc_tables[id + 1]
                 ELSE metadata.huffman_tables.ac_tables[id + 1]
        IN  /\ UpperNibble(t.info) \in {0, 1}
            /\ d = Canonical(t.counts, t.symbols)
            /\ t.counts[1] > 0 => FirstCode(d, 1) = 0
            /\ \A l \in 1..16 : \A n \in 0..(t.counts[l] - 1) :
                  /\ <<l, FirstCode(d, l) + n>> \in DOMAIN d
                  /\ d[<<l, FirstCode(d, l) + n>>] = t.symbols[SymbolsBefore(t.counts, l) + n + 1]
            /\ \A l \in 1..15 :
                  (t.counts[l] > 0 /\ t.counts[l + 1] > 0)
                      => FirstCode(d, l + 1) = (LastCode(d, l) + 1) * 2

\* a table with codes of two successive lengths, and two of one length, was stored
\* in ac_tables
CanonicalCodesWitness ==
    /\ TableStored
    /\ UpperNibble(LastTable.info) = 1
    /\ LastTable.counts[2] = 1 /\ LastTable.counts[3] = 2
    /\ LastTable.symbols = <<17, 0, 17>>

\* the counts do not over-subscribe the code space: sum of counts[l] / 2^l <= 1
Kraft(counts) == SumSeq([l \in 1..16 |-> counts[l] * Pow2(16 - l)]) <= Pow2(16)

\* code a of length la is a bit-prefix of code b of length lb
BitPrefix(la, a, lb, b) == la <= lb /\ b \div Pow2(lb - la) = a

\* the shape of a stored table d built from counts, but for the bound on the codes
KeysShape(d, counts) ==
    /\ \A k \in DOMAIN d : 1 <= k[1] /\ k[1] <= 16
    /\ Cardinality(DOMAIN d) = SumSeq(counts)
    /\ \A k1 \in DOMAIN d : \A k2 \in DOMAIN d :
          k1 # k2 => ~BitPrefix(k1[1], k1[2], k2[1], k2[2])

CodesFit(d) == \A k \in DOMAIN d : k[2] < Pow2(k[1])

\* C8 as claimed: for any sixteen counts, every key (length, code) of the stored
\* table has 1 <= length <= 16 and code < 2^length, there are as many entries as
\* the counts sum to, and no code is a bit-prefix of another.
PrefixFreeAnyCounts ==
    TableStored =>
        LET d == Slot(metadata, LastTable.info)
        IN  KeysShape(d, LastTable.counts) /\ CodesFit(d)

\* C8 amended: for any counts the keys have 1 <= length <= 16, are as many as the
\* counts sum to and none is a bit-prefix of another; code < 2^length holds when
\* the counts do not over-subscribe the code space (Kraft).
PrefixFreeKraft ==
    TableStored =>
        LET d == Slot(metadata, LastTable.info)
        IN  /\ KeysShape(d, LastTable.counts)
            /\ Kraft(LastTable.counts) => CodesFit(d)

\* a complete code (1 + 2 codes of lengths 1, 2) was stored
PrefixFreeKraftWitness ==
    /\ TableStored
    /\ LastTable.counts[1] = 1 /\ LastTable.counts[2] = 2
    /\ Kraft(LastTable.counts)
    /\ DOMAIN Slot(metadata, LastTable.info) = {<<1, 0>>, <<2, 2>>, <<2, 3>>}

---------------------------------------------------------------------------
(* parse_sof0 (marker.py).  seg records the component records read:        *)
(* [id, sampling, quant].                                                  *)

\* read_u16: (bytes_read[0] << 8) | bytes_read[1]
ReadU16(b0, b1) == b0 * 256 + b1

\* idx = component_id - 1 (a positional store would use the loop's i instead)
PositionalIndex(component_id) == comp_n

ComponentIndex(component_id) == component_id - 1

\* the component ids drawn
ComponentIds == {0, 1, 2, 3, 4}

\* the (sampling byte, quantization table id) pairs drawn: 1x1, 2x1, 1x2
SamplingQuant == {<<17, 0>>, <<33, 1>>, <<18, 0>>}

InitSof ==
    /\ IdleFile /\ IdleBitStream /\ IdleScan /\ IdleDecoder /\ IdleHist /\ IdleWalk
    /\ pc = "sof" /\ err = "none"
    /\ metadata = DefaultMetadata
    /\ length \in {8, 8 + 3 * MaxNf}
    /\ bytes_remaining = 0
    /\ num_components = 0 /\ comp_n = 0
    /\ max_h_sampling = 0 /\ max_v_sampling = 0
    /\ eof = FALSE
    /\ seg = <<>>

\* precision, height, width and the number of components
SofHeader ==
    /\ pc = "sof" /\ err = "none"
    /\ \E precision \in {8}, hb \in {<<1, 0>>}, wb \in {<<0, 7>>}, nf \in 0..MaxNf :
          /\ f' = f \o <<precision>> \o hb \o wb \o <<nf>>
          /\ pos' = pos + 6
          /\ metadata' = [metadata EXCEPT !.sof_info.precision = precision,
                                          !.sof_info.height = ReadU16(hb[1], hb[2]),
                                          !.sof_info.width = ReadU16(wb[1], wb[2])]
          /\ num_components' = nf
    /\ comp_n' = 0
    /\ max_h_sampling' = 0
    /\ max_v_sampling' = 0
    /\ pc' = "sof_loop"
    /\ UNCHANGED <<err, length, bytes_remaining, eof, seg, bsVars, scanVars, decVars, histVars, walkVars>>

\* one iteration of for i in range(num_components)
SofComponent ==
    /\ pc = "sof_loop" /\ err = "none"
    /\ comp_n < num_components
    /\ \E component_id \in ComponentIds, sq \in SamplingQuant :
          LET sampling == sq[1]
              h_sampling == UpperNibble(sampling)
              v_sampling == LowerNibble(sampling)
              quant_table_id == sq[2]
              index == ComponentIndex(component_id)
          IN  /\ f' = f \o <<component_id, sampling, quant_table_id>>
              /\ pos' = pos + 3
              /\ seg' = Append(seg, [id |-> component_id, sampling |-> sampling,
                                     quant |-> quant_table_id])
              /\ metadata' =
                    IF 0 <= index /\ index < 3
                    THEN [metadata EXCEPT !.sof_info.components[index + 1] =
                              ComponentInfo(h_sampling, v_sampling, quant_table_id)]
                    ELSE metadata
              /\ max_h_sampling' = Max(max_h_sampling, h_sampling)
              /\ max_v_sampling' = Max(max_v_sampling, v_sampling)
    /\ comp_n' = comp_n + 1
    /\ UNCHANGED <<pc, err, length, bytes_remaining, num_components, eof,
                   bsVars, scanVars, decVars, histVars, walkVars>>

\* the loop ends: the maxima are stored and parse_sof0 returns
SofReturn ==
    /\ pc = "sof_loop" /\ err = "none"
    /\ comp_n >= num_components
    /\ metadata' = [metadata EXCEPT !.sof_info.max_horizontal_sampling = max_h_sampling,
                                    !.sof_info.max_vertical_sampling = max_v_sampling]
    /\ pc' = "sof_done"
    /\ UNCHANGED <<fileVars, err, parseVars, bsVars, scanVars, decVars, histVars, walkVars>>

\* the file ends inside the segment: read_u8 or read_u16 raises IOError
SofTruncated ==
    /\ pc \in {"sof", "sof_loop"} /\ err = "none"
    /\ pc = "sof_loop" => comp_n < num_components
    /\ err' = "IOError"
    /\ eof' = TRUE
    /\ UNCHANGED <<fileVars, pc, metadata, length, bytes_remaining, num_components, comp_n,
                   max_h_sampling, max_v_sampling, seg, bsVars, scanVars, decVars, histVars, walkVars>>

NextSof == SofHeader \/ SofComponent \/ SofReturn \/ SofTruncated

SpecSof == InitSof /\ [][NextSof]_vars

\* the positions in seg of the records with component id c
RecordsWithId(c) == {j \in 1..Len(seg) : seg[j].id = c}

LastWithId(c) == CHOOSE j \in RecordsWithId(c) : \A k \in RecordsWithId(c) : k <= j

RecordInfo(rec) ==
    ComponentInfo(UpperNibble(rec.sampling), LowerNibble(rec.sampling), rec.quant)

RECURSIVE MaxOver(_)
MaxOver(S) == IF S = {} THEN 0
              ELSE LET x == CHOOSE y \in S : TRUE IN Max(x, MaxOver(S \ {x}))

\* C9 as claimed: the j-th record of the segment is stored at internal index j,
\* whatever its component id, and the maxima are over the stored components.
SofPositional ==
    pc = "sof_done" =>
        LET sof == metadata.sof_info
            stored == 1..(IF Len(seg) < 3 THEN Len(seg) ELSE 3)
        IN  /\ \A j \in stored : sof.components[j] = RecordInfo(seg[j])
            /\ sof.max_horizontal_sampling
                  = MaxOver({sof.components[j].horizontal_sampling : j \in stored})
            /\ sof.max_vertical_sampling
                  = MaxOver({sof.components[j].vertical_sampling : j \in stored})

\* C9 amended: a record whose component id c is in 1..3 is stored at internal
\* index c - 1 (the last record with that id wins, records with other ids are not
\* stored, an index no record names keeps its value), and the maxima are over
\* all the records of the segment, stored or not.
SofById ==
    pc = "sof_done" =>
        LET sof == metadata.sof_info
        IN  /\ Len(seg) = num_components
            /\ \A c \in 1..3 :
                  sof.components[c] =
                      IF RecordsWithId(c) # {} THEN RecordInfo(seg[LastWithId(c)])
                      ELSE DefaultMetadata.sof_info.components[c]
            /\ sof.max_horizontal_sampling
                  = MaxOver({UpperNibble(seg[j].sampling) : j \in 1..Len(seg)})
            /\ sof.max_vertical_sampling
                  = MaxOver({LowerNibble(seg[j].sampling) : j \in 1..Len(seg)})

\* a frame of three records, ids 2, 1, 2: record 2 is stored at index 0, the last
\* record of id 2 at index 1 and index 2 keeps its default
SofByIdWitness ==
    /\ pc = "sof_done"
    /\ Len(seg) = 3
    /\ seg[1].id = 2 /\ seg[2].id = 1 /\ seg[3].id = 2
    /\ seg[1].sampling = 17 /\ seg[2].sampling = 33 /\ seg[3].sampling = 18
    /\ metadata.sof_info.components[1] = ComponentInfo(2, 1, 1)
    /\ metadata.sof_info.components[2] = ComponentInfo(1, 2, 0)
    /\ metadata.sof_info.max_horizontal_sampling = 2

---------------------------------------------------------------------------
(* parse_sos (marker.py).  seg records the scan component records read:    *)
(* [id, mapping].  The cursor starts right after the length field.         *)

\* idx = component_id - 1 (a positional binding would use the loop's i instead)
PositionalScanIndex(component_id) == comp_n

ScanComponentIndex(component_id) == component_id - 1

\* f.read(3): the number of bytes asked for after the component records
ShortTrailer == 3 - 1

TrailerBytes == 3

\* the table_mapping bytes drawn: (dc, ac) = (0, 1), (1, 0), (1, 1)
MappingBytes == {1, 16, 17}

\* Ss, Se, Ah|Al of a baseline scan
Trailer == <<0, 63, 0>>

InitSos ==
    /\ IdleFile /\ IdleBitStream /\ IdleScan /\ IdleDecoder /\ IdleHist /\ IdleWalk
    /\ pc = "sos" /\ err = "none"
    /\ metadata = DefaultMetadata
    /\ length \in {6, 6 + 2 * MaxNf}
    /\ bytes_remaining = 0
    /\ num_components = 0 /\ comp_n = 0
    /\ max_h_sampling = 0 /\ max_v_sampling = 0
    /\ eof = FALSE
    /\ seg = <<>>

\* the number of components in the scan
SosHeader ==
    /\ pc = "sos" /\ err = "none"
    /\ \E ns \in 0..MaxNf :
          /\ f' = Append(f, ns)
          /\ pos' = pos + 1
          /\ num_components' = ns
    /\ comp_n' = 0
    /\ pc' = "sos_loop"
    /\ UNCHANGED <<err, metadata, length, bytes_remaining, max_h_sampling, max_v_sampling,
                   eof, seg, bsVars, scanVars, decVars, histVars, walkVars>>

\* one iteration of for i in range(num_components)
SosComponent ==
    /\ pc = "sos_loop" /\ err = "none"
    /\ comp_n < num_components
    /\ \E component_id \in ComponentIds, table_mapping \in MappingBytes :
          LET dc_table_id == UpperNibble(table_mapping)
              ac_table_id == LowerNibble(table_mapping)
              index == ScanComponentIndex(component_id)
          IN  /\ f' = f \o <<component_id, table_mapping>>
              /\ pos' = pos + 2
              /\ seg' = Append(seg, [id |-> component_id, mapping |-> table_mapping])
              /\ metadata' =
                    IF 0 <= index /\ index < 3
                    THEN [metadata EXCEPT !.table_mapping[index + 1] =
                              <<dc_table_id, ac_table_id>>]
                    ELSE metadata
    /\ comp_n' = comp_n + 1
    /\ UNCHANGED <<pc, err, length, bytes_remaining, num_components, max_h_sampling,
                   max_v_sampling, eof, bsVars, scanVars, decVars, histVars, walkVars>>

\* f.read(3) and the return: a read at the end of the file returns what is left
SosTrailer ==
    /\ pc = "sos_loop" /\ err = "none"
    /\ comp_n >= num_components
    /\ \E got \in 0..TrailerBytes :
          /\ f' = f \o SubSeq(Trailer, 1, got)
          /\ pos' = pos + got
          /\ eof' = (got < TrailerBytes)
    /\ pc' = "sos_done"
    /\ UNCHANGED <<err, metadata, length, bytes_remaining, num_components, comp_n,
                   max_h_sampling, max_v_sampling, seg, bsVars, scanVars, decVars, histVars, walkVars>>

\* the file ends before the component records do: read_u8 raises IOError
SosTruncated ==
    /\ pc \in {"sos", "sos_loop"} /\ err = "none"
    /\ pc = "sos_loop" => comp_n < num_components
    /\ err' = "IOError"
    /\ eof' = TRUE
    /\ UNCHANGED <<fileVars, pc, metadata, length, bytes_remaining, num_components, comp_n,
                   max_h_sampling, max_v_sampling, seg, bsVars, scanVars, decVars, histVars, walkVars>>

NextSos == SosHeader \/ SosComponent \/ SosTrailer \/ SosTruncated

SpecSos == InitSos /\ [][NextSos]_vars

RecordMapping(rec) == <<UpperNibble(rec.mapping), LowerNibble(rec.mapping)>>

\* C10 as claimed: the j-th scan component record is bound at internal index j
\* (the index C9 gives the j-th frame component), the three trailing bytes are
\* consumed and the cursor is length - 2 bytes after the length field (in a file
\* that holds the trailing bytes).
SosPositional ==
    (pc = "sos_done" /\ ~eof) =>
        /\ \A j \in 1..(IF Len(seg) < 3 THEN Len(seg) ELSE 3) :
              metadata.table_mapping[j] = RecordMapping(seg[j])
        /\ pos = length - 2

\* C10 amended: a scan record whose component selector c is in 1..3 binds
\* (dc = upper nibble, ac = lower nibble) at internal index c - 1, the index
\* parse_sof0 uses for the frame component of that id (the last record with the
\* id wins, other selectors bind nothing); when the file holds the three trailing
\* bytes the cursor is 1 + 2*Ns + 3 bytes after the length field, which is
\* length - 2 when length = 6 + 2*Ns.
SosById ==
    pc = "sos_done" =>
        /\ Len(seg) = num_components
        /\ \A c \in 1..3 :
              /\ ScanComponentIndex(c) = ComponentIndex(c)
              /\ metadata.table_mapping[c] =
                    IF RecordsWithId(c) # {} THEN RecordMapping(seg[LastWithId(c)])
                    ELSE DefaultMetadata.table_mapping[c]
        /\ pos = Len(f)
        /\ ~eof => /\ pos = 1 + 2 * num_components + 3
                   /\ length = 6 + 2 * num_components => pos = length - 2

\* a well-formed scan of three components, ids 1, 2, 3, returned with the cursor
\* length - 2 = 10 bytes after the length field
SosByIdWitness ==
    /\ pc = "sos_done" /\ ~eof
    /\ length = 12 /\ pos = 10
    /\ Len(seg) = 3
    /\ seg[1].id = 1 /\ seg[2].id = 2 /\ seg[3].id = 3
    /\ metadata.table_mapping = << <<0, 1>>, <<1, 0>>, <<1, 1>> >>

---------------------------------------------------------------------------
(* read_mcus and read_mcu (reader.py).  A block is 8 rows of 8 values; the *)
(* linear index k lives at row k // 8, column k % 8.  The for loops over   *)
(* r, c, i, v, h are run by Settle, which walks from a loop head to the    *)
(* next block to decode, closing the lists of the loops it leaves.         *)

BlockRows == 8

BlockSize == 64

\* [[0.0] * 8 for _ in range(8)]
ZeroBlock == [row \in 1..BlockRows |-> [col \in 1..BlockRows |-> 0]]

\* block[k // 8][k % 8]
Coefficient(blk, k) == blk[(k \div BlockRows) + 1][(k % BlockRows) + 1]

\* block[k % 8][k // 8] = val
SetTransposed(blk, k, val) ==
    [blk EXCEPT ![(k % BlockRows) + 1][(k \div BlockRows) + 1] = val]

\* block[k // 8][k % 8] = val
SetCoefficient(blk, k, val) ==
    [blk EXCEPT ![(k \div BlockRows) + 1][(k % BlockRows) + 1] = val]

\* the tests idx < 64 of the while loop and idx >= 64 before the store
NoBoundCheck(k) == FALSE

PastBlock(k) == k >= BlockSize

\* (size + mcu_size - 1) // mcu_size
ReaderGridCount(size, mcu_size) == (size + mcu_size - 1) \div mcu_size

McuWidth(md) == 8 * md.sof_info.max_horizontal_sampling

McuHeight(md) == 8 * md.sof_info.max_vertical_sampling

WMcus(md) == ReaderGridCount(md.sof_info.width, McuWidth(md))

HMcus(md) == ReaderGridCount(md.sof_info.height, McuHeight(md))

Loops ==
    [pc |-> pc, r |-> loop_r, c |-> loop_c, i |-> loop_i, v |-> loop_v, h |-> loop_h,
     row_blocks |-> row_blocks, comp_data |-> comp_data, mcu |-> mcu,
     row_mcus |-> row_mcus, mcus |-> mcus, failed |-> "none"]

\* the table lookups at the head of the loop over the components
TablesExist(md, comp) ==
    /\ md.table_mapping[comp + 1][1] < Len(md.huffman_tables.dc_tables)
    /\ md.table_mapping[comp + 1][2] < Len(md.huffman_tables.ac_tables)

RECURSIVE Settle(_, _)
Settle(md, ls) ==
    IF ls.pc = "row"
    THEN IF ls.r < HMcus(md)
         THEN Settle(md, [ls EXCEPT !.pc = "col", !.c = 0, !.row_mcus = <<>>])
         ELSE [ls EXCEPT !.pc = "scan_done"]
    ELSE IF ls.pc = "col"
    THEN IF ls.c < WMcus(md)
         THEN Settle(md, [ls EXCEPT !.pc = "comp", !.i = 0, !.mcu = <<>>])
         ELSE Settle(md, [ls EXCEPT !.pc = "row", !.r = @ + 1,
                                    !.mcus = Append(@, ls.row_mcus)])
    ELSE IF ls.pc = "comp"
    THEN IF ls.i < 3
         THEN IF TablesExist(md, ls.i)
              THEN Settle(md, [ls EXCEPT !.pc = "v", !.v = 0, !.comp_data = <<>>])
              ELSE [ls EXCEPT !.failed = "IndexError"]
         ELSE Settle(md, [ls EXCEPT !.pc = "col", !.c = @ + 1,
                                    !.row_mcus = Append(@, ls.mcu)])
    ELSE IF ls.pc = "v"
    THEN IF ls.v < md.sof_info.components[ls.i + 1].vertical_sampling
         THEN Settle(md, [ls EXCEPT !.pc = "h", !.h = 0, !.row_blocks = <<>>])
         ELSE Settle(md, [ls EXCEPT !.pc = "comp", !.i = @ + 1,
                                    !.mcu = Append(@, ls.comp_data)])
    ELSE IF ls.h < md.sof_info.components[ls.i + 1].horizontal_sampling
         THEN ls
         ELSE Settle(md, [ls EXCEPT !.pc = "v", !.v = @ + 1,
                                    !.comp_data = Append(@, ls.row_blocks)])

SetLoops(ls) ==
    \E to \in {ls} :
        /\ pc' = to.pc
        /\ err' = to.failed
        /\ loop_r' = to.r /\ loop_c' = to.c /\ loop_i' = to.i
        /\ loop_v' = to.v /\ loop_h' = to.h
        /\ row_blocks' = to.row_blocks /\ comp_data' = to.comp_data /\ mcu' = to.mcu
        /\ row_mcus' = to.row_mcus /\ mcus' = to.mcus

SetReader(rs) ==
    \E to \in {rs} :
        /\ pos' = to.pos
        /\ current_byte' = to.current_byte
        /\ bit_count' = to.bit_count
        /\ last_dc' = to.last_dc
        /\ bits_out' = to.out

\* the Huffman tables of the scans: DC codes 0, 10, 110 for the sizes 0, 1, 2;
\* AC codes 0, 10, 110, 1110 for EOB, ZRL, (run 11, size 1), (run 15, size 1)
ScanDcTable == BuildHuffmanDict(CountsFrom(<<1, 2, 3>>), <<0, 1, 2>>)

ScanAcTable == BuildHuffmanDict(CountsFrom(<<1, 2, 3, 4>>), <<0, 240, 177, 241>>)

\* the sampling factors (H, V) of the three components of the frames drawn:
\* 4:4:4, luma 2x1, and a frame of one component
Samplings ==
    { << <<1, 1>>, <<1, 1>>, <<1, 1>> >>,
      << <<2, 1>>, <<1, 1>>, <<1, 1>> >>,
      << <<1, 1>>, <<0, 0>>, <<0, 0>> >> }

\* the metadata parse_sof0, parse_dht and parse_sos leave for such a frame
FrameMetadata(samp, width, height) ==
    [DefaultMetadata EXCEPT
        !.sof_info = [precision |-> 8, height |-> height, width |-> width,
                      components |-> [k \in 1..3 |-> ComponentInfo(samp[k][1], samp[k][2],
                                                                  IF k = 1 THEN 0 ELSE 1)],
                      max_horizontal_sampling |-> MaxOver({samp[k][1] : k \in 1..3}),
                      max_vertical_sampling |-> MaxOver({samp[k][2] : k \in 1..3})],
        !.huffman_tables = [dc_tables |-> <<ScanDcTable, ScanDcTable>>,
                            ac_tables |-> <<ScanAcTable, ScanAcTable>>],
        !.table_mapping = [k \in 1..3 |-> IF k = 1 \/ samp[k] = <<0, 0>>
                                           THEN <<0, 0>> ELSE <<1, 1>>]]

\* frames of one MCU, or of two, in each direction
ScanFrames ==
    {FrameMetadata(samp, width, height) :
        samp \in Samplings, width \in {1, 17}, height \in {1, 9}}

InitScan ==
    /\ f \in SeqsUpTo(PayloadBytes, MaxPayload)
    /\ pos = 0
    /\ IdleBitStream /\ IdleParse /\ IdleScan /\ IdleDecoder /\ IdleHist /\ IdleWalk
    /\ pc = "read_mcus" /\ err = "none"
    /\ metadata \in ScanFrames

\* read_mcus up to the first block: BitStream(f) and the heads of the loops
ScanStart ==
    /\ pc = "read_mcus" /\ err = "none"
    /\ current_byte' = 0 /\ bit_count' = 0 /\ last_dc' = <<0, 0, 0>>
    /\ SetLoops(Settle(metadata, [Loops EXCEPT !.pc = "row", !.r = 0, !.mcus = <<>>]))
    /\ UNCHANGED <<fileVars, bits_out, metadata, parseVars, idx, block, dc_diffs, stores,
                   ac_exit, decVars, histVars, walkVars>>

\* a fresh block and its DC coefficient
ReadBlockDc ==
    /\ pc = "h" /\ err = "none"
    /\ \E table \in {metadata.huffman_tables.dc_tables[metadata.table_mapping[loop_i + 1][1] + 1]} :
       \E d \in {ReadDc(Reader, table, loop_i)} :
           /\ SetReader(d)
           /\ err' = d.failed
           /\ IF d.failed = "none"
              THEN /\ block' = SetCoefficient(ZeroBlock, 0, d.val)
                   /\ dc_diffs' = [dc_diffs EXCEPT ![loop_i + 1] = Append(@, d.diff)]
                   /\ stores' = <<0>>
                   /\ idx' = 1
                   /\ pc' = "ac"
              ELSE /\ block' = ZeroBlock
                   /\ UNCHANGED <<dc_diffs, stores, idx, pc>>
    /\ ac_exit' = "none"
    /\ UNCHANGED <<f, metadata, parseVars, loop_r, loop_c, loop_i, loop_v, loop_h,
                   row_blocks, comp_data, mcu, row_mcus, mcus, decVars, histVars, walkVars>>

\* one iteration of while idx < 64
ReadBlockAc ==
    /\ pc = "ac" /\ err = "none"
    /\ ~PastBlock(idx)
    /\ \E table \in {metadata.huffman_tables.ac_tables[metadata.table_mapping[loop_i + 1][2] + 1]} :
       \E a \in {ReadAc(Reader, table)} :
       LET zeros == a.val[1]
           target == idx + zeros
       IN  /\ SetReader(a)
           /\ IF a.failed # "none"
              THEN /\ err' = a.failed
                   /\ UNCHANGED <<idx, block, stores, ac_exit, pc>>
              ELSE IF zeros = -1
              THEN /\ ac_exit' = "eob"
                   /\ pc' = "block_end"
                   /\ UNCHANGED <<idx, block, stores, err>>
              ELSE IF PastBlock(target)
              THEN /\ idx' = target
                   /\ ac_exit' = IF LowerNibble(MatchHuffman(Reader, table).val) > 0
                                 THEN "dropped" ELSE "overrun"
                   /\ pc' = "block_end"
                   /\ UNCHANGED <<block, stores, err>>
              ELSE IF target >= BlockSize
              THEN \* a store outside the 8 rows raises IndexError
                   /\ idx' = target
                   /\ stores' = Append(stores, target)
                   /\ err' = "IndexError"
                   /\ UNCHANGED <<block, ac_exit, pc>>
              ELSE /\ block' = SetCoefficient(block, target, a.val[2])
                   /\ stores' = Append(stores, target)
                   /\ idx' = target + 1
                   /\ UNCHANGED <<ac_exit, pc, err>>
    /\ UNCHANGED <<f, metadata, parseVars, loop_r, loop_c, loop_i, loop_v, loop_h,
                   row_blocks, comp_data, mcu, row_mcus, mcus, dc_diffs, decVars, histVars, walkVars>>

\* the while loop ends because idx reached 64
AcLoopFull ==
    /\ pc = "ac" /\ err = "none"
    /\ PastBlock(idx)
    /\ ac_exit' = "full"
    /\ pc' = "block_end"
    /\ UNCHANGED <<fileVars, bsVars, err, metadata, parseVars, loop_r, loop_c, loop_i,
                   loop_v, loop_h, idx, block, row_blocks, comp_data, mcu, row_mcus, mcus,
                   dc_diffs, stores, decVars, histVars, walkVars>>

\* row_blocks.append(block) and the loops up to the next block, or to the return
EndBlock ==
    /\ pc = "block_end" /\ err = "none"
    /\ SetLoops(Settle(metadata, [Loops EXCEPT !.pc = "h", !.h = @ + 1,
                                               !.row_blocks = Append(@, block)]))
    /\ UNCHANGED <<fileVars, bsVars, metadata, parseVars, idx, block, dc_diffs, stores,
                   ac_exit, decVars, histVars, walkVars>>

---------------------------------------------------------------------------
(* data_reader after read_mcus returns (reader.py): the marker loop goes   *)
(* on over what the scan left of the file.                                 *)

\* the result of the walk from cursor p: the cursor it stops at, and the exception
RECURSIVE MarkerWalk(_, _)
MarkerWalk(bytes, p) ==
    IF p >= Len(bytes) THEN [pos |-> p, failed |-> "none"]
    ELSE IF bytes[p + 1] # 255 THEN MarkerWalk(bytes, p + 1)
    ELSE IF p + 1 >= Len(bytes) THEN [pos |-> p + 1, failed |-> "none"]
    ELSE LET mk == bytes[p + 2]
         IN  IF mk = 216 \/ mk = 0 THEN MarkerWalk(bytes, p + 2)
             ELSE IF mk = 217 THEN [pos |-> p + 2, failed |-> "none"]
             ELSE IF p + 4 > Len(bytes) THEN [pos |-> Len(bytes), failed |-> "IOError"]
             ELSE LET skip == ReadU16(bytes[p + 3], bytes[p + 4]) - 2
                  IN  IF skip < -1 THEN [pos |-> p + 4, failed |-> "ValueError"]
                      ELSE IF skip = -1 THEN [pos |-> Len(bytes), failed |-> "none"]
                      ELSE MarkerWalk(bytes, IF p + 4 + skip > Len(bytes) THEN Len(bytes)
                                             ELSE p + 4 + skip)

DataReaderTail ==
    /\ pc = "scan_done" /\ err = "none"
    /\ LET t == MarkerWalk(f, pos)
       IN  /\ pos' = t.pos
           /\ err' = t.failed
           /\ pc' = IF t.failed = "none" THEN "decoder" ELSE pc
    /\ UNCHANGED <<f, bsVars, metadata, parseVars, scanVars, decVars, histVars, walkVars>>

---------------------------------------------------------------------------
(* decoder and MCUWrap.toRGB (decoder.py), Image.new (image.py).           *)

\* int((size - 1) / mcu_size + 1)
PlainQuotientCount(size, mcu_size) == (size \div mcu_size) + 1

DecoderGridCount(size, mcu_size) == ((size - 1) \div mcu_size) + 1

\* h*mcu_height + y and w*mcu_width + x
BlockOffset(cell, mcu_size) == cell * 8

PixelOffset(cell, mcu_size) == cell * mcu_size

\* the positions (row, column) of the pixels the tile of cell (h, w) is written to
TilePositions(md, h, w) ==
    {<<PixelOffset(h, McuHeight(md)) + y, PixelOffset(w, McuWidth(md)) + x>> :
        y \in 0..(McuHeight(md) - 1), x \in 0..(McuWidth(md) - 1)}

\* Image.new(width, height): height rows of width pixels
ImagePositions(image) ==
    {<<y, x>> : y \in 0..(image.height - 1), x \in 0..(image.width - 1)}

RowMajorBefore(p, q) == p[1] < q[1] \/ (p[1] = q[1] /\ p[2] < q[2])

\* the positions of a tile that are written before the first one outside the image
Landed(tile, image) ==
    LET outside == {q \in tile : ~(q[1] < image.height /\ q[2] < image.width)}
    IN  IF outside = {} THEN tile
        ELSE {p \in tile : \A q \in outside : RowMajorBefore(p, q)}

\* the quotient rounded up
SampleCoordUp(i, sampling, max_sampling) == (i * sampling + max_sampling - 1) \div max_sampling

\* int(i * sampling / max_sampling): the quotient of two integers below 2^53,
\* truncated; i and sampling are never negative
SampleCoord(i, sampling, max_sampling) == (i * sampling) \div max_sampling

\* int(i * sampling / max_sampling) // 8 for the i of range(mcu_size)
SampledBlocks(mcu_size, sampling, max_sampling) ==
    {SampleCoord(i, sampling, max_sampling) \div 8 : i \in 0..(mcu_size - 1)}

\* toRGB, for component id: the indices <<vh // 8, vh % 8>> used for row i of the
\* tile and <<vw // 8, vw % 8>> used for column j (rows and columns from 1 here);
\* pixel (i, j) reads self.mcu[id][vh // 8][vw // 8][vh % 8][vw % 8]
ToRGBReads(md) ==
    [id \in 1..3 |->
        [rows |-> [i \in 1..McuHeight(md) |->
                      LET vh == SampleCoord(i - 1, md.sof_info.components[id].vertical_sampling,
                                            md.sof_info.max_vertical_sampling)
                      IN  <<vh \div 8, vh % 8>>],
         cols |-> [j \in 1..McuWidth(md) |->
                      LET vw == SampleCoord(j - 1, md.sof_info.components[id].horizontal_sampling,
                                            md.sof_info.max_horizontal_sampling)
                      IN  <<vw \div 8, vw % 8>>]]]

\* the write counts after a tile of rows x cols pixels landed whole at (top, left)
WriteTile(counts, image, top, left, rows, cols) ==
    [y \in 1..image.height |->
        IF y - 1 < top \/ y - 1 >= top + rows THEN counts[y]
        ELSE [x \in 1..image.width |->
                 IF x - 1 < left \/ x - 1 >= left + cols THEN counts[y][x]
                 ELSE counts[y][x] + 1]]

\* toRGB: self.mcu[id][vh // 8][vw // 8] exists for every pixel of the tile
ToRGBIndexed(md, m) ==
    \A id \in 1..3 :
        /\ id <= Len(m)
        /\ \A bv \in SampledBlocks(McuHeight(md), md.sof_info.components[id].vertical_sampling,
                                    md.sof_info.max_vertical_sampling) :
              /\ bv + 1 <= Len(m[id])
              /\ \A bh \in SampledBlocks(McuWidth(md),
                                         md.sof_info.components[id].horizontal_sampling,
                                         md.sof_info.max_horizontal_sampling) :
                    bh + 1 <= Len(m[id][bv + 1])

\* decoder from the return of data_reader to the loop over the MCUs
DecoderStart ==
    /\ pc = "decoder" /\ err = "none"
    /\ IF McuWidth(metadata) = 0 \/ McuHeight(metadata) = 0
       THEN /\ err' = "ZeroDivisionError"
            /\ UNCHANGED <<pc, decVars, walkVars>>
       ELSE LET wn == DecoderGridCount(metadata.sof_info.width, McuWidth(metadata))
                hn == DecoderGridCount(metadata.sof_info.height, McuHeight(metadata))
                image == [width |-> wn * McuWidth(metadata),
                          height |-> hn * McuHeight(metadata)]
            IN  /\ mcu_width_number' = wn
                /\ mcu_height_number' = hn
                /\ img' = image
                /\ written' = [y \in 1..image.height |-> [x \in 1..image.width |-> 0]]
                /\ attempts' = {}
                /\ dec_h' = 0 /\ dec_w' = 0
                /\ pc' = IF hn > 0 /\ wn > 0 THEN "mcu" ELSE "decoder_done"
                /\ err' = err
    /\ UNCHANGED <<fileVars, bsVars, metadata, parseVars, scanVars, walkVars, histVars>>

\* one iteration of the loops over h and w: MCUs[h][w], toRGB, the tile write
DecodeMCU ==
    /\ pc = "mcu" /\ err = "none"
    /\ IF dec_h >= Len(mcus) \/ dec_w >= Len(mcus[dec_h + 1])
       THEN /\ err' = "IndexError"
            /\ UNCHANGED <<pc, decVars, walkVars, sampled>>
       ELSE IF ~ToRGBIndexed(metadata, mcus[dec_h + 1][dec_w + 1])
       THEN /\ err' = "IndexError"
            /\ UNCHANGED <<pc, decVars, walkVars, sampled>>
       ELSE LET tile == TilePositions(metadata, dec_h, dec_w)
                landed == Landed(tile, img)
                last_w == dec_w + 1 >= mcu_width_number
                last_h == dec_h + 1 >= mcu_height_number
            IN  /\ sampled' = ToRGBReads(metadata)
                /\ attempts' = tile
                /\ written' = IF landed = tile
                              THEN WriteTile(written, img, PixelOffset(dec_h, McuHeight(metadata)),
                                             PixelOffset(dec_w, McuWidth(metadata)),
                                             McuHeight(metadata), McuWidth(metadata))
                              ELSE [y \in 1..img.height |-> [x \in 1..img.width |->
                                       IF <<y - 1, x - 1>> \in landed
                                       THEN written[y][x] + 1 ELSE written[y][x]]]
                /\ IF landed # tile
                   THEN /\ err' = "IndexError"
                        /\ UNCHANGED <<pc, dec_h, dec_w>>
                   ELSE /\ err' = err
                        /\ dec_w' = IF last_w THEN 0 ELSE dec_w + 1
                        /\ dec_h' = IF last_w THEN dec_h + 1 ELSE dec_h
                        /\ pc' = IF last_w /\ last_h THEN "decoder_done" ELSE pc
                /\ UNCHANGED <<img, mcu_width_number, mcu_height_number>>
    /\ UNCHANGED <<fileVars, bsVars, metadata, parseVars, scanVars, walkVars,
                   returned, stages, raw_mcu>>

NextScan ==
    \/ ScanStart \/ ReadBlockDc \/ ReadBlockAc \/ AcLoopFull \/ EndBlock
    \/ DataReaderTail \/ DecoderStart \/ DecodeMCU

SpecScan == InitScan /\ [][NextScan]_vars

---------------------------------------------------------------------------
(* Properties of the scan.                                                 *)

RECURSIVE Flatten(_)
Flatten(ss) == IF ss = <<>> THEN <<>> ELSE Head(ss) \o Flatten(Tail(ss))

\* the blocks of component i of a list of MCUs, in the order of the list
RECURSIVE BlocksIn(_, _)
BlocksIn(ms, i) ==
    IF ms = <<>> THEN <<>> ELSE Flatten(Head(ms)[i]) \o BlocksIn(Tail(ms), i)

InBlockLoops == pc \in {"h", "ac", "block_end"}

\* the blocks of component i decoded so far, the MCU grid taken row by row
DecodedBlocks(i) ==
    BlocksIn(Flatten(mcus), i)
    \o (IF ~InBlockLoops THEN <<>>
        ELSE BlocksIn(row_mcus, i)
             \o (IF i <= Len(mcu) THEN Flatten(mcu[i])
                 ELSE IF i = loop_i + 1
                 THEN Flatten(comp_data) \o row_blocks
                      \o (IF pc = "h" THEN <<>> ELSE <<block>>)
                 ELSE <<>>))

\* C2: for every component i and every k, the DC coefficient of the k-th block
\* of component i decoded in the scan is the sum of the first k DC differences
\* of that component, the MCUs being taken in row-major order; the predictor of
\* the component is the sum of all its differences.
DcPredictorSum ==
    \A i \in 1..3 :
        /\ Len(DecodedBlocks(i)) = Len(dc_diffs[i])
        /\ \A k \in 1..Len(dc_diffs[i]) :
              Coefficient(DecodedBlocks(i)[k], 0) = SumSeq(SubSeq(dc_diffs[i], 1, k))
        /\ last_dc[i] = SumSeq(dc_diffs[i])

\* C2 witness: the scan is over and a component has two blocks in two MCUs,
\* both with a non-zero difference
DcPredictorSumWitness ==
    /\ pc = "scan_done"
    /\ Len(Flatten(mcus)) >= 2
    /\ \E i \in 1..3 :
          /\ Len(dc_diffs[i]) >= 2
          /\ dc_diffs[i][1] # 0 /\ dc_diffs[i][2] # 0
          /\ Coefficient(DecodedBlocks(i)[2], 0) = dc_diffs[i][1] + dc_diffs[i][2]

IsBlock(b) == Len(b) = BlockRows /\ \A row \in 1..BlockRows : Len(b[row]) = BlockRows

\* C3: every block read_mcu returns holds 8 rows of 8 coefficients, every store
\* made while decoding a block targets a linear index in 0..63, and the AC loop
\* of a block ends only on End-Of-Block or with the linear position at 64 or more.
BlockShape ==
    /\ \A i \in 1..3 : \A k \in 1..Len(DecodedBlocks(i)) : IsBlock(DecodedBlocks(i)[k])
    /\ \A n \in 1..Len(stores) : stores[n] \in 0..(BlockSize - 1)
    /\ pc = "ac" => ac_exit = "none"
    /\ pc = "block_end" =>
          \/ ac_exit = "eob"
          \/ ac_exit \in {"overrun", "dropped", "full"} /\ idx >= BlockSize

\* C3 witness: a block whose AC loop ended because the last store filled index 63
BlockShapeWitness ==
    /\ pc = "block_end"
    /\ ac_exit = "full"
    /\ idx = BlockSize
    /\ stores[Len(stores)] = BlockSize - 1
    /\ Coefficient(block, BlockSize - 1) # 0

\* C16: when an AC symbol of size > 0 carries the linear position of a block
\* past 63, read_mcu fails: the block is never closed with the coefficient
\* dropped.
InvalidRunLengthRaises ==
    ac_exit = "dropped" => err = "InvalidRunLength"

\* the next step of the scan begins with a get_bit that needs a new byte
NeedsByte ==
    /\ err = "none" /\ bit_count = 0
    /\ pc = "h" \/ (pc = "ac" /\ ~PastBlock(idx))

FullGrid ==
    /\ Len(mcus) = HMcus(metadata)
    /\ \A r \in 1..Len(mcus) : Len(mcus[r]) = WMcus(metadata)

\* C17: when the scan needs a new byte and the source is exhausted the step
\* raises EOFError; the state it raises in is final, with the source at its
\* end, no MCU grid returned and no image allocated; and a scan that does
\* return hands over the whole grid.
EndOfStreamPropagates ==
    /\ [](err = "EOFError" =>
            /\ pc \in {"h", "ac"}
            /\ pos = Len(f) /\ bit_count = 0
            /\ img = [width |-> 0, height |-> 0] /\ written = <<>>)
    /\ [](pc \in {"scan_done", "decoder", "mcu", "decoder_done"} => FullGrid)
    /\ [][(NeedsByte /\ pos >= Len(f)) => err' = "EOFError"]_vars
    /\ [][err # "EOFError"]_vars

\* the source runs out after at least one MCU of the grid has been decoded
EndOfStreamPropagatesWitness ==
    /\ err = "EOFError"
    /\ Len(row_mcus) + Len(mcus) > 0
    /\ ~FullGrid

\* the first 0xFF of what follows the SOS header begins an EOI marker at p
FirstEoiAt(p) ==
    /\ p \in 1..(Len(f) - 1)
    /\ f[p] = 255 /\ f[p + 1] = 217
    /\ \A q \in 1..(p - 1) : f[q] # 255

\* C20: no byte behind the EOI marker that follows the scan is ever read, by
\* the bit stream or by the marker loop.
EoiEndsReading ==
    \A p \in 1..Len(f) : FirstEoiAt(p) => pos <= p + 1

\* MCUWrap.dequantize: the table component i (from 1) is multiplied by
QuantTableOf(md, i) ==
    quantization_tables[md.sof_info.components[i].quantization_table_id + 1]

\* no DQT segment has stored the quantization table of component i
QuantTableMissing(md, i) ==
    <<"dqt", md.sof_info.components[i].quantization_table_id>> \notin tables_loaded

\* C19: the decode of a frame one of whose components names a quantization
\* table that no DQT segment loaded fails with a missing-table error: it
\* never goes through the scan and on to the MCUs with the all-zero default.
TableMissingRaises ==
    \A i \in 1..3 :
        (/\ pc \in {"scan_done", "decoder", "mcu", "decoder_done"}
         /\ QuantTableMissing(metadata, i)
         /\ QuantTableOf(metadata, i) = [k \in 1..TableLen |-> 0])
        => err = "TableMissing"

\* the AC table of the component being read
AcTable == metadata.huffman_tables.ac_tables[metadata.table_mapping[loop_i + 1][2] + 1]

\* the AC loop is about to read a symbol
AtAcSymbol == pc = "ac" /\ err = "none" /\ ~PastBlock(idx)

\* C22: a Zero-Run-Length symbol decoded at linear position p leaves the block
\* at position p + 16.
ZrlSkipsSixteen ==
    [][(AtAcSymbol /\ ReadAc(Reader, AcTable).failed = "none"
                   /\ MatchHuffman(Reader, AcTable).val = 240)
       => idx' = idx + 16]_vars

\* the block just closed is the last block of its component
ClosedBlockReturned ==
    \E i \in 1..3 :
        /\ i = loop_i + 1
        /\ LET blocks == DecodedBlocks(i)'
           IN  Len(blocks) > 0 /\ blocks[Len(blocks)] = block

\* C23: an AC symbol S other than End-Of-Block and Zero-Run-Length, decoded at
\* linear position p with k = p + (S >> 4) <= 63, stores the value of its
\* S & 0x0F bits at row k div 8, column k mod 8, leaves the positions p..k-1
\* zero and every other coefficient as it was, and goes on at k + 1.  On
\* End-Of-Block the positions p..63 are zero, only the bits of the code are
\* consumed, and the block is returned as it stands without another bit read.
AcSymbolStores ==
    /\ [][LET sym == MatchHuffman(Reader, AcTable)
              a == ReadAc(Reader, AcTable)
              k == idx + (sym.val \div 16)
          IN  (AtAcSymbol /\ a.failed = "none" /\ sym.val \notin {0, 240} /\ k <= 63) =>
                 /\ \A j \in 0..(BlockSize - 1) :
                       Coefficient(block', j) =
                          IF j = k THEN ReadValue(sym, LowerNibble(sym.val)).val
                          ELSE Coefficient(block, j)
                 /\ \A j \in idx..(k - 1) : Coefficient(block', j) = 0
                 /\ idx' = k + 1 /\ pc' = "ac"]_vars
    /\ [][LET sym == MatchHuffman(Reader, AcTable)
          IN  (AtAcSymbol /\ sym.failed = "none" /\ sym.val = 0) =>
                 /\ block' = block
                 /\ \A j \in idx..(BlockSize - 1) : Coefficient(block', j) = 0
                 /\ bits_out' = sym.out /\ pos' = sym.pos
                 /\ pc' = "block_end"]_vars
    /\ [][(pc = "block_end" /\ err = "none") =>
             /\ UNCHANGED <<pos, bit_count, bits_out>>
             /\ ClosedBlockReturned]_vars

\* a block closed by End-Of-Block behind an AC coefficient stored after a run
AcSymbolStoresWitness ==
    /\ pc = "block_end" /\ ac_exit = "eob"
    /\ Len(stores) = 2 /\ stores[2] > 1
    /\ Coefficient(block, stores[2]) # 0

\* C6 as claimed: a frame of one component with sampling 1x1 and width = height = 1,
\* whose scan is one DC symbol followed at once by End-Of-Block, decodes without
\* error.
GrayscaleDecodes ==
    (/\ metadata.sof_info.components[2].horizontal_sampling = 0
     /\ metadata.sof_info.width = 1 /\ metadata.sof_info.height = 1
     /\ Len(f) = 1
     /\ Len(dc_diffs[1]) = 1
     /\ stores = <<0>> /\ ac_exit = "eob")
    => err = "none"

---------------------------------------------------------------------------
(* decoder on every small frame: the declared size and the maximum         *)
(* sampling factors are drawn, and MCUs is the list read_mcus builds for   *)
(* them, each component holding V rows of H blocks.                        *)

\* the MCU read_mcu returns for the frame, all coefficients zero
McuOf(md) ==
    [k \in 1..3 |->
        [bv \in 1..md.sof_info.components[k].vertical_sampling |->
            [bh \in 1..md.sof_info.components[k].horizontal_sampling |-> ZeroBlock]]]

McusOf(md) == [gr \in 1..HMcus(md) |-> [gc \in 1..WMcus(md) |-> McuOf(md)]]

DecoderFrames ==
    {FrameMetadata(<< <<mh, mv>>, <<1, 1>>, <<1, 1>> >>, width, height) :
        mh \in 1..MaxSamp, mv \in 1..MaxSamp, width \in 1..MaxDim, height \in 1..MaxDim}

InitDecoder ==
    /\ IdleFile /\ IdleBitStream /\ IdleParse /\ IdleDecoder /\ IdleHist /\ IdleWalk
    /\ pc = "decoder" /\ err = "none"
    /\ metadata \in DecoderFrames
    /\ mcus = McusOf(metadata)
    /\ loop_r = HMcus(metadata) /\ loop_c = WMcus(metadata)
    /\ loop_i = 3 /\ loop_v = 1 /\ loop_h = 1
    /\ idx = 0 /\ block = <<>>
    /\ row_blocks = <<>> /\ comp_data = <<>> /\ mcu = <<>> /\ row_mcus = <<>>
    /\ dc_diffs = << <<>>, <<>>, <<>> >>
    /\ stores = <<>>
    /\ ac_exit = "none"

NextDecoder == DecoderStart \/ DecodeMCU

SpecDecoder == InitDecoder /\ [][NextDecoder]_vars

---------------------------------------------------------------------------
(* Properties of decoder.                                                  *)

\* the number of MCUs the loops of decoder have finished
CellsDone == dec_h * mcu_width_number + dec_w

\* the index, in row-major order, of the grid cell holding pixel p
CellOf(p) ==
    (p[1] \div McuHeight(metadata)) * mcu_width_number + (p[2] \div McuWidth(metadata))

\* the rectangle of mcu_w x mcu_h pixels whose top-left corner is (top, left)
Rectangle(top, left) ==
    {<<top + y, left + x>> :
        y \in 0..(McuHeight(metadata) - 1), x \in 0..(McuWidth(metadata) - 1)}

\* how many times img.pixels[p[1]][p[2]] was written
WriteCount(p) == written[p[1] + 1][p[2] + 1]

\* C4: the MCU at grid cell (h, w) writes exactly the mcu_w x mcu_h pixel
\* positions of the rectangle at (h*mcu_h, w*mcu_w); every write is inside the
\* image; no pixel is written twice; after the last MCU every pixel of the
\* padded image has been written exactly once.
TileWrites ==
    pc \in {"mcu", "decoder_done"} =>
        /\ err = "none"
        /\ attempts \subseteq ImagePositions(img)
        /\ CellsDone > 0 =>
              /\ Cardinality(attempts) = McuWidth(metadata) * McuHeight(metadata)
              /\ attempts = Rectangle(((CellsDone - 1) \div mcu_width_number)
                                          * McuHeight(metadata),
                                      ((CellsDone - 1) % mcu_width_number)
                                          * McuWidth(metadata))
        /\ \A p \in ImagePositions(img) :
              WriteCount(p) = IF CellOf(p) < CellsDone THEN 1 ELSE 0
        /\ pc = "decoder_done" => \A p \in ImagePositions(img) : WriteCount(p) = 1

\* C4 witness: decoder has finished a grid of two rows of two MCUs that are
\* wider than high
TileWritesWitness ==
    /\ pc = "decoder_done"
    /\ mcu_width_number = 2 /\ mcu_height_number = 2
    /\ McuWidth(metadata) = 16 /\ McuHeight(metadata) = 8
    /\ \A p \in ImagePositions(img) : WriteCount(p) = 1

\* the least n with n * d >= a
CeilDiv(a, d) == CHOOSE n \in 0..a : n * d >= a /\ (n - 1) * d < a

\* C5: decoder allocates the image at ceil(width/mcu_w)*mcu_w by
\* ceil(height/mcu_h)*mcu_h, and its MCU-grid counts are the counts read_mcus
\* used to build the MCU list, so every MCUs[h][w] it indexes exists.
PaddedAllocation ==
    pc \in {"mcu", "decoder_done"} =>
        /\ img.width = CeilDiv(metadata.sof_info.width, McuWidth(metadata))
                           * McuWidth(metadata)
        /\ img.height = CeilDiv(metadata.sof_info.height, McuHeight(metadata))
                            * McuHeight(metadata)
        /\ mcu_width_number = WMcus(metadata)
        /\ mcu_height_number = HMcus(metadata)
        /\ Len(mcus) = mcu_height_number
        /\ \A gr \in 1..Len(mcus) : Len(mcus[gr]) = mcu_width_number
        /\ err # "IndexError"

\* C5 witness: a declared 7x7 frame with 8x8 MCUs is decoded into an 8x8 image
PaddedAllocationWitness ==
    /\ pc = "decoder_done"
    /\ metadata.sof_info.width = 7 /\ metadata.sof_info.height = 7
    /\ McuWidth(metadata) = 8 /\ McuHeight(metadata) = 8
    /\ img = [width |-> 8, height |-> 8]
    /\ mcu_width_number = 1 /\ mcu_height_number = 1

---------------------------------------------------------------------------
(* parse_dqt (marker.py).  The file is drawn as it is read: f holds the     *)
(* bytes consumed so far, and seg the tables read from the wire.            *)

\* (table_info >> 4) & 0x0F
Precision(table_info) == UpperNibble(table_info) % 16

\* the bytes the 64 values of a table take: bytes_remaining -= 64 or 128
AlwaysShort(precision) == TableLen

TableBytes(precision) == IF precision = 0 THEN TableLen ELSE 2 * TableLen

\* the k-th value (from 1) read from the wire of a table: read_u8 or read_u16
WireValue(precision, wire, k) ==
    IF precision = 0 THEN wire[k] ELSE ReadU16(wire[2 * k - 1], wire[2 * k])

\* the table_info bytes drawn: 8-bit tables 0 and 1, 16-bit tables 0 and 3, and id 4
DqtInfos == {0, 1, 16, 19, 4}

\* the values the drawn tables hold: a ramp, a constant, and values over 255
QuantPatterns ==
    { [k \in 1..TableLen |-> k - 1],
      [k \in 1..TableLen |-> 50],
      [k \in 1..TableLen |-> 4 * k + 256 * (k % 3)] }

\* the wire form of 64 values at a precision
WireOf(precision, values) ==
    IF precision = 0 THEN [k \in 1..TableLen |-> values[k] % 256]
    ELSE [k \in 1..(2 * TableLen) |->
             IF k % 2 = 1 THEN (values[(k + 1) \div 2] \div 256) % 256
             ELSE values[k \div 2] % 256]

\* metadata.quantization_tables[table_id][i] = float(...) for the first n values
StoreValues(tables, table_id, precision, wire, n) ==
    [tables EXCEPT ![table_id + 1] =
        [k \in 1..TableLen |-> IF k <= n THEN WireValue(precision, wire, k) ELSE @[k]]]

\* a metadata some earlier DQT segment has filled
FilledQuantizationTables == [t \in 1..TableCount |-> [k \in 1..TableLen |-> 7]]

InitDqt ==
    /\ IdleFile /\ IdleBitStream /\ IdleScan /\ IdleDecoder /\ IdleHist
    /\ pc = "dqt" /\ err = "none"
    /\ metadata = DefaultMetadata
    /\ length \in {2, 3, 2 + 65, 2 + 129, 2 + 65 + 65, 2 + 65 + 129}
    /\ bytes_remaining = length - 2
    /\ num_components = 0 /\ comp_n = 0
    /\ max_h_sampling = 0 /\ max_v_sampling = 0
    /\ eof = FALSE
    /\ seg = <<>>
    /\ quantization_tables \in {DefaultQuantizationTables, FilledQuantizationTables}
    /\ app_info = DefaultAppInfo
    /\ marker = 219
    /\ markers_seen = <<>>
    /\ cut = -1
    /\ tables_loaded = {}

\* one iteration of the while loop, the file holding all the bytes it reads
DqtTable ==
    /\ pc = "dqt" /\ err = "none"
    /\ bytes_remaining > 0
    /\ \E table_info \in DqtInfos, values \in QuantPatterns :
          LET precision == Precision(table_info)
              table_id == LowerNibble(table_info)
              wire == WireOf(precision, values)
          IN  IF table_id < TableCount
              THEN /\ f' = f \o <<table_info>> \o wire
                   /\ pos' = pos + 1 + Len(wire)
                   /\ bytes_remaining' = bytes_remaining - 1 - TableBytes(precision)
                   /\ quantization_tables' =
                          StoreValues(quantization_tables, table_id, precision, wire, TableLen)
                   /\ tables_loaded' = tables_loaded \cup {<<"dqt", table_id>>}
                   /\ seg' = Append(seg, [info |-> table_info, wire |-> wire])
                   /\ err' = err
              ELSE \* the first store raises IndexError, one value read
                   /\ f' = f \o <<table_info>> \o SubSeq(wire, 1, IF precision = 0 THEN 1 ELSE 2)
                   /\ pos' = pos + 1 + (IF precision = 0 THEN 1 ELSE 2)
                   /\ bytes_remaining' = bytes_remaining - 1
                   /\ err' = "IndexError"
                   /\ UNCHANGED <<quantization_tables, tables_loaded, seg>>
    /\ UNCHANGED <<pc, metadata, length, num_components, comp_n, max_h_sampling,
                   max_v_sampling, eof, bsVars, scanVars, decVars, histVars, app_info, marker,
                   markers_seen, cut>>

\* the values of a table after which the drawn files end
CutPoints == {0, 30, 63}

\* the file ends inside the iteration: at table_info, or after n whole values
DqtTruncated ==
    /\ pc = "dqt" /\ err = "none"
    /\ bytes_remaining > 0
    /\ \/ /\ UNCHANGED <<fileVars, bytes_remaining, quantization_tables>>
       \/ \E table_info \in DqtInfos, values \in QuantPatterns, n \in CutPoints :
             LET precision == Precision(table_info)
                 table_id == LowerNibble(table_info)
                 wire == SubSeq(WireOf(precision, values), 1,
                                IF precision = 0 THEN n ELSE 2 * n)
             IN  /\ n = 0 \/ table_id < TableCount
                 /\ f' = f \o <<table_info>> \o wire
                 /\ pos' = pos + 1 + Len(wire)
                 /\ bytes_remaining' = bytes_remaining - 1
                 /\ quantization_tables' =
                        IF n = 0 THEN quantization_tables
                        ELSE StoreValues(quantization_tables, table_id, precision,
                                         WireOf(precision, values), n)
    /\ err' = "IOError"
    /\ eof' = TRUE
    /\ cut' = marker
    /\ UNCHANGED <<pc, metadata, length, num_components, comp_n, max_h_sampling,
                   max_v_sampling, seg, bsVars, scanVars, decVars, histVars, app_info, marker,
                   markers_seen, tables_loaded>>

\* the while loop ends and parse_dqt returns
DqtReturn ==
    /\ pc = "dqt" /\ err = "none"
    /\ bytes_remaining <= 0
    /\ pc' = "dqt_done"
    /\ UNCHANGED <<fileVars, err, metadata, parseVars, bsVars, scanVars, decVars, histVars, walkVars>>

NextDqt == DqtTable \/ DqtTruncated \/ DqtReturn

SpecDqt == InitDqt /\ [][NextDqt]_vars

\* the bytes the tables read so far take on the wire
RECURSIVE WireBytes(_)
WireBytes(tables) ==
    IF tables = <<>> THEN 0 ELSE 1 + Len(Head(tables).wire) + WireBytes(Tail(tables))

\* the last table of the segment that addresses table t (from 0), or 0 if none does
LastAddressing(t) ==
    LET hits == {n \in 1..Len(seg) : LowerNibble(seg[n].info) = t}
    IN  IF hits = {} THEN 0 ELSE CHOOSE n \in hits : \A m \in hits : m <= n

\* the i-th value (from 0) on the wire of a table, as the segment format defines it
NthWireValue(table, i) ==
    IF UpperNibble(table.info) = 0 THEN table.wire[i + 1]
    ELSE 256 * table.wire[2 * i + 1] + table.wire[2 * i + 2]

\* the segment: tables with ids in 0..3, precision nibble 0 or 1, filling length - 2
WellFormedDqt ==
    /\ seg # <<>>
    /\ \A n \in 1..Len(seg) :
          LowerNibble(seg[n].info) \in 0..3 /\ UpperNibble(seg[n].info) \in {0, 1}
    /\ \E n \in 1..Len(seg) : WireBytes(SubSeq(seg, 1, n)) = length - 2

\* C11: after parse_dqt on a segment of one or more tables with ids in 0..3,
\* entry i of each addressed table is the i-th wire value of the (last) table of
\* the segment with that id, a byte at precision 0 and a big-endian 16-bit value
\* at precision 1; every other table is as it was before; exactly length - 2
\* bytes have been consumed.
DqtLoadsTables ==
    /\ []((pc = "dqt_done" /\ WellFormedDqt) =>
            /\ pos = length - 2
            /\ Len(f) = length - 2
            /\ \A t \in 0..(TableCount - 1) :
                  LastAddressing(t) # 0 =>
                      \A i \in 0..(TableLen - 1) :
                          quantization_tables[t + 1][i + 1]
                              = NthWireValue(seg[LastAddressing(t)], i))
    /\ [][\A t \in 0..(TableCount - 1) :
              quantization_tables'[t + 1] # quantization_tables[t + 1] =>
                  /\ Len(f') > Len(f)
                  /\ LowerNibble(f'[Len(f) + 1]) = t]_vars

\* C11 witness: a segment of an 8-bit table 1 and a 16-bit table 3 holding a
\* value over 255 has been parsed into tables that were filled before
DqtLoadsTablesWitness ==
    /\ pc = "dqt_done" /\ WellFormedDqt
    /\ Len(seg) = 2
    /\ seg[1].info = 1 /\ seg[2].info = 19
    /\ quantization_tables[4][2] > 255
    /\ quantization_tables[1] = FilledQuantizationTables[1]
    /\ pos = 65 + 129

---------------------------------------------------------------------------
(* marker_detector (marker.py).  The file is drawn as it is read: f holds   *)
(* the bytes consumed so far and eof tells that a read found it exhausted.  *)
(* The loop of data_reader (reader.py) is the same up to its call of        *)
(* read_mcus.  parse_dht and parse_sos take over at pc = "dht" and "sos":   *)
(* SpecDht and SpecSos start there.                                         *)

SOI == 216

EOI == 217

APP0 == 224

DQT == 219

DHT == 196

SOF0 == 192

SOS == 218

\* markers with a handler of their own
Recognized == {APP0, DQT, DHT, SOF0, SOS}

\* markers the loop skips by their length: APP1, progressive SOF2, DRI, and 0xFF
Skipped == {225, 194, 221, 255}

\* the length fields drawn after a skipped marker, as the two bytes on the wire
SkipLengths == {<<0, 0>>, <<0, 1>>, <<0, 2>>, <<0, 4>>, <<255, 217>>}

\* the length field drawn after a recognized marker
SegmentLength(m) ==
    IF m = APP0 THEN <<0, 16>>
    ELSE IF m = DQT THEN <<0, 67>>
    ELSE IF m = SOF0 THEN <<0, 17>>
    ELSE IF m = DHT THEN <<0, 19>>
    ELSE <<0, 8>>

\* where the loop goes with a length-prefixed marker
Handler(m) ==
    IF m = APP0 THEN "app0"
    ELSE IF m = DQT THEN "dqt"
    ELSE IF m = DHT THEN "dht"
    ELSE IF m = SOF0 THEN "sof"
    ELSE IF m = SOS THEN "sos"
    ELSE "skip"

\* the files drawn hold at most one recognized segment, right at the start or
\* after SOI, and nothing but EOI after it
ParsedOne == \E n \in 1..Len(markers_seen) : markers_seen[n] \in Recognized

MayDraw == ~eof /\ ~ParsedOne /\ Len(markers_seen) < MaxWalk

InitWalk ==
    /\ IdleFile /\ IdleBitStream /\ IdleParse /\ IdleScan /\ IdleDecoder /\ IdleHist /\ IdleWalk
    /\ pc = "walk" /\ err = "none"
    /\ metadata = DefaultMetadata

\* if not byte: break, against a continue
EndContinues == [pc |-> "walk", err |-> "none"]

\* if not byte: break, against a read that raises like read_u8
EndRaises == [pc |-> "walk", err |-> "IOError"]

EndOfFile == [pc |-> "returned", err |-> "none"]

\* f.read(1) finds the file exhausted: break
WalkEnd ==
    /\ pc = "walk" /\ err = "none"
    /\ eof' = TRUE
    /\ pc' = EndOfFile.pc
    /\ err' = EndOfFile.err
    /\ UNCHANGED <<fileVars, metadata, length, bytes_remaining, num_components, comp_n,
                   max_h_sampling, max_v_sampling, seg, bsVars, scanVars, decVars, histVars, walkVars>>

\* a byte that is not 0xFF: continue
WalkByte ==
    /\ pc = "walk" /\ err = "none"
    /\ MayDraw
    /\ f' = Append(f, 0)
    /\ pos' = pos + 1
    /\ markers_seen' = Append(markers_seen, -1)
    /\ UNCHANGED <<pc, err, metadata, parseVars, bsVars, scanVars, decVars, histVars,
                   quantization_tables, app_info, marker, cut, tables_loaded>>

\* 0xFF and then the end of the file: break
WalkMarkerEnd ==
    /\ pc = "walk" /\ err = "none"
    /\ ~eof
    /\ f' = Append(f, 255)
    /\ pos' = pos + 1
    /\ eof' = TRUE
    /\ pc' = EndOfFile.pc
    /\ err' = EndOfFile.err
    /\ UNCHANGED <<metadata, length, bytes_remaining, num_components, comp_n,
                   max_h_sampling, max_v_sampling, seg, bsVars, scanVars, decVars, histVars, walkVars>>

\* 0xFF and a marker without a segment: stuffing and SOI continue, EOI breaks
WalkMarker ==
    /\ pc = "walk" /\ err = "none"
    /\ ~eof
    /\ \E m \in {0, SOI, EOI} :
          /\ m # EOI => MayDraw
          /\ f' = f \o <<255, m>>
          /\ pos' = pos + 2
          /\ marker' = m
          /\ markers_seen' = Append(markers_seen, m)
          /\ pc' = IF m = EOI THEN "returned" ELSE pc
    /\ UNCHANGED <<err, metadata, parseVars, bsVars, scanVars, decVars, histVars,
                   quantization_tables, app_info, cut, tables_loaded>>

\* 0xFF, any other marker, and read_u16 for its length field
WalkSegment ==
    /\ pc = "walk" /\ err = "none"
    /\ MayDraw
    /\ \E m \in Recognized \cup Skipped :
          /\ m \in Recognized => (markers_seen = <<>> \/ markers_seen = <<SOI>>)
          /\ marker' = m
          /\ markers_seen' = Append(markers_seen, m)
          /\ \E field \in (IF m \in Recognized THEN {SegmentLength(m)} ELSE SkipLengths),
                got \in 0..2 :
                /\ f' = f \o <<255, m>> \o SubSeq(field, 1, got)
                /\ pos' = pos + 2 + got
                /\ IF got < 2
                   THEN /\ err' = "IOError"
                        /\ eof' = TRUE
                        /\ cut' = m
                        /\ UNCHANGED <<pc, length, bytes_remaining>>
                   ELSE /\ length' = ReadU16(field[1], field[2])
                        /\ bytes_remaining' = IF m = DQT THEN length' - 2 ELSE bytes_remaining
                        /\ pc' = Handler(m)
                        /\ UNCHANGED <<err, eof, cut>>
    /\ seg' = <<>>
    /\ UNCHANGED <<metadata, num_components, comp_n, max_h_sampling, max_v_sampling,
                   bsVars, scanVars, decVars, histVars, quantization_tables, app_info, tables_loaded>>

\* the most bytes of a skipped segment the drawn files hold
MaxSkip == 2

\* f.read(length - 2) of a segment without a handler
SkipSegment ==
    /\ pc = "skip" /\ err = "none"
    /\ LET n == length - 2
       IN  IF n < -1
           THEN \* a buffered file refuses a negative size other than -1
                /\ err' = "ValueError"
                /\ UNCHANGED <<fileVars, pc, eof, cut>>
           ELSE \E got \in 0..MaxSkip :
                   /\ n >= 0 => got <= n
                   /\ f' = f \o [k \in 1..got |-> 0]
                   /\ pos' = pos + got
                   /\ eof' = (n = -1 \/ got < n)
                   /\ cut' = IF n >= 0 /\ got < n THEN marker ELSE cut
                   /\ pc' = "walk"
                   /\ err' = err
    /\ UNCHANGED <<metadata, length, bytes_remaining, num_components, comp_n, max_h_sampling,
                   max_v_sampling, seg, bsVars, scanVars, decVars, histVars, quantization_tables,
                   app_info, marker, markers_seen, tables_loaded>>

\* the 14 bytes of a JFIF header with thumbnail dimensions xt, yt
JfifBytes(xt, yt) == <<74, 70, 73, 70, 0, 1, 1, 0, 0, 72, 0, 72, xt, yt>>

\* how many of the 14 bytes the drawn files hold
App0Cuts == {0, 3, 5, 6, 9, 13, 14}

\* app_info after parse_app0 has read what it can of n bytes
App0Read(info, bytes, n) ==
    [identifier |-> SubSeq(bytes, 1, IF n < 5 THEN n ELSE 5),
     version_major_id |-> IF n >= 6 THEN bytes[6] ELSE info.version_major_id,
     version_minor_id |-> IF n >= 7 THEN bytes[7] ELSE info.version_minor_id,
     units |-> IF n >= 8 THEN bytes[8] ELSE info.units,
     x_density |-> IF n >= 10 THEN ReadU16(bytes[9], bytes[10]) ELSE info.x_density,
     y_density |-> IF n >= 12 THEN ReadU16(bytes[11], bytes[12]) ELSE info.y_density,
     x_thumbnail |-> IF n >= 13 THEN bytes[13] ELSE info.x_thumbnail,
     y_thumbnail |-> IF n >= 14 THEN bytes[14] ELSE info.y_thumbnail]

\* parse_app0
ParseApp0 ==
    /\ pc = "app0" /\ err = "none"
    /\ \E xt \in {0, 1}, yt \in {1}, n \in App0Cuts :
          LET bytes == JfifBytes(xt, yt)
              thumbnail_size == xt * yt * 3
          IN  /\ app_info' = App0Read(app_info, bytes, n)
              /\ IF n < 14
                 THEN /\ f' = f \o SubSeq(bytes, 1, n)
                      /\ pos' = pos + n
                      /\ err' = "IOError"
                      /\ eof' = TRUE
                      /\ cut' = marker
                      /\ pc' = pc
                 ELSE \E got \in {0, thumbnail_size} :
                         /\ f' = f \o bytes \o [k \in 1..got |-> 0]
                         /\ pos' = pos + 14 + got
                         /\ eof' = (got < thumbnail_size)
                         /\ cut' = IF got < thumbnail_size THEN marker ELSE cut
                         /\ err' = err
                         /\ pc' = "walk"
    /\ UNCHANGED <<metadata, length, bytes_remaining, num_components, comp_n, max_h_sampling,
                   max_v_sampling, seg, bsVars, scanVars, decVars, histVars, quantization_tables,
                   marker, markers_seen, tables_loaded>>

\* parse_dqt or parse_sof0 has returned: the next iteration of the loop
SegmentParsed ==
    /\ pc \in {"dqt_done", "sof_done"} /\ err = "none"
    /\ pc' = "walk"
    /\ UNCHANGED <<fileVars, err, metadata, parseVars, bsVars, scanVars, decVars, histVars, walkVars>>

NextWalk ==
    \/ WalkEnd \/ WalkByte \/ WalkMarkerEnd \/ WalkMarker \/ WalkSegment
    \/ SkipSegment \/ ParseApp0 \/ SegmentParsed
    \/ DqtTable \/ DqtTruncated \/ DqtReturn
    \/ SofHeader \/ SofComponent \/ SofReturn \/ SofTruncated

SpecWalk == InitWalk /\ [][NextWalk]_vars

---------------------------------------------------------------------------
(* Properties of the marker walk.                                          *)

LastMarker == IF markers_seen = <<>> THEN -1 ELSE markers_seen[Len(markers_seen)]

\* C12 as claimed: whenever the file ends inside a length-prefixed segment, in
\* its length field or before its length - 2 payload bytes, the walk raises
\* IOError, whatever the marker.
TruncationRaises == cut # -1 => err = "IOError"

\* C13 as claimed: a 0xFF read where a marker is expected is padding: no length
\* field is read for it, no error is raised, and the walk goes on to the marker
\* behind it.
FillBytesArePadding == LastMarker = 255 => (pc = "walk" /\ err = "none" /\ cut = -1)

\* C14 as claimed: the walk raises only inside a length-prefixed segment, and
\* whenever no SOF0 segment was parsed the metadata returned equals the defaults.
DefaultsWithoutSof ==
    /\ err # "none" => LastMarker \in Recognized \cup Skipped
    /\ (pc = "returned" /\ \A n \in 1..Len(markers_seen) : markers_seen[n] # SOF0) =>
          /\ metadata = DefaultMetadata
          /\ quantization_tables = DefaultQuantizationTables
          /\ app_info = DefaultAppInfo

\* C14 amended: the walk raises only inside a length-prefixed segment, so a file
\* that ends at the head of the loop or right after a 0xFF (empty, without any
\* 0xFF, ending after SOI) makes marker_detector return; what it returns when no
\* segment with a handler was read is the default metadata, and without a SOF0
\* segment the frame is the default one, of width 0 and height 0.
ReturnsOutsideSegments ==
    /\ err # "none" => LastMarker \in Recognized \cup Skipped
    /\ (pc = "returned" /\ ~ParsedOne) =>
          /\ metadata = DefaultMetadata
          /\ quantization_tables = DefaultQuantizationTables
          /\ app_info = DefaultAppInfo
    /\ (pc = "returned" /\ \A n \in 1..Len(markers_seen) : markers_seen[n] # SOF0) =>
          /\ metadata.sof_info = DefaultMetadata.sof_info
          /\ metadata.sof_info.width = 0 /\ metadata.sof_info.height = 0

\* C14 witness: the file is SOI and nothing else, and the walk has returned
ReturnsOutsideSegmentsWitness ==
    /\ pc = "returned" /\ err = "none"
    /\ eof
    /\ f = <<255, SOI>>
    /\ metadata.sof_info.width = 0

\* C18 as claimed: a progressive SOF2 or a restart-interval segment is never
\* skipped with the walk going on: the decode fails.
BaselineOnly ==
    (marker \in {194, 221} /\ pc \in {"walk", "returned"}) => err # "none"

---------------------------------------------------------------------------
(* BitStream.match_huffman called on its own: a client decodes symbols     *)
(* from a payload with one table until the stream raises.  The table is    *)
(* dc_tables[0] of the metadata.                                           *)

\* the tables drawn: the two of the scans, a table of one code of length 3,
\* and the empty dict of a fresh JPEGMetadata
MatchTables ==
    {ScanDcTable, ScanAcTable, BuildHuffmanDict(CountsFrom(<<3>>), <<5>>), EmptyDict}

MatchTable == metadata.huffman_tables.dc_tables[1]

InitMatch ==
    /\ f \in SeqsUpTo(PayloadBytes, MaxPayload)
    /\ pos = 0
    /\ IdleBitStream /\ IdleParse /\ IdleScan /\ IdleDecoder /\ IdleWalk
    /\ pc = "match" /\ err = "none"
    /\ \E t \in MatchTables :
          metadata = [DefaultMetadata EXCEPT !.huffman_tables.dc_tables[1] = t]
    /\ returned = <<>> /\ stages = <<>> /\ raw_mcu = <<>> /\ sampled = <<>>

\* one call of match_huffman
MatchCall ==
    /\ pc = "match" /\ err = "none"
    /\ LET m == MatchHuffman(Reader, MatchTable)
       IN  /\ SetReader(m)
           /\ err' = m.failed
           /\ returned' = IF m.failed = "none"
                          THEN Append(returned, [arg |-> 0, val |-> m.val])
                          ELSE returned
    /\ UNCHANGED <<f, pc, metadata, parseVars, scanVars, decVars, walkVars, stages, raw_mcu, sampled>>

NextMatch == MatchCall

SpecMatch == InitMatch /\ [][NextMatch]_vars

\* the next bits get_bit delivers from reader state rs, n at most
RECURSIVE Upcoming(_, _)
Upcoming(rs, n) ==
    IF n = 0 THEN <<>>
    ELSE LET g == GetBit(rs)
         IN  IF g.failed # "none" THEN <<>> ELSE <<g.val>> \o Upcoming(g, n - 1)

\* the number a bit sequence spells, most significant bit first
RECURSIVE BitsValue(_)
BitsValue(bits) ==
    IF bits = <<>> THEN 0
    ELSE 2 * BitsValue(SubSeq(bits, 1, Len(bits) - 1)) + bits[Len(bits)]

\* the lengths n in 1..16 at which the first n of the bits are a key of the table
KeyLengths(table, bits) ==
    {n \in 1..Len(bits) : n <= 16 /\ <<n, BitsValue(SubSeq(bits, 1, n))>> \in DOMAIN table}

MinOver(S) == CHOOSE x \in S : \A y \in S : x <= y

\* the bits of the code a table assigns to a symbol
RECURSIVE BitsOfCode(_, _)
BitsOfCode(n, code) ==
    IF n = 0 THEN <<>> ELSE Append(BitsOfCode(n - 1, code \div 2), code % 2)

CodeOf(table, sym) ==
    LET key == CHOOSE k \in DOMAIN table : table[k] = sym
    IN  BitsOfCode(key[1], key[2])

\* the concatenated codes of a symbol sequence
RECURSIVE Encode(_, _)
Encode(table, syms) ==
    IF syms = <<>> THEN <<>> ELSE CodeOf(table, Head(syms)) \o Encode(table, Tail(syms))

SymbolsOf(table) == {table[k] : k \in DOMAIN table}

\* the symbols the calls have returned
ReturnedValues == [k \in 1..Len(returned) |-> returned[k].val]

\* every bit the stream delivers from its start
AllBits ==
    Upcoming([Reader EXCEPT !.pos = 0, !.current_byte = 0, !.bit_count = 0], 8 * Len(f))

\* C24: a call of match_huffman returns the symbol of the shortest prefix of the
\* upcoming bits that is a key of the table and consumes the bits of that prefix
\* only; when none of the first 16 upcoming bits ends a key it raises ValueError
\* with exactly 16 bits consumed; and when the bits of the stream begin with the
\* concatenated codes of a symbol sequence, the calls return that sequence.
MatchReturnsShortest ==
    /\ [][(pc = "match" /\ err = "none") =>
            LET up == Upcoming(Reader, 16)
                hits == KeyLengths(MatchTable, up)
            IN  IF hits # {}
                THEN LET n == MinOver(hits)
                     IN  /\ err' = "none"
                         /\ returned' = Append(returned,
                               [arg |-> 0,
                                val |-> MatchTable[<<n, BitsValue(SubSeq(up, 1, n))>>]])
                         /\ bits_out' = bits_out \o SubSeq(up, 1, n)
                ELSE IF Len(up) = 16
                THEN err' = "ValueError" /\ bits_out' = bits_out \o up /\ returned' = returned
                ELSE err' = "EOFError" /\ returned' = returned]_vars
    /\ [](pc = "match" =>
            \A all \in {AllBits}, vals \in {ReturnedValues} :
                \A syms \in SeqsUpTo(SymbolsOf(MatchTable), MaxPayload) :
                    \A code \in {Encode(MatchTable, syms)} :
                        (IsPrefix(code, all) /\ Len(bits_out) >= Len(code))
                           => IsPrefix(syms, vals))

\* symbols of codes of different lengths decoded in a row
MatchReturnsShortestWitness ==
    /\ pc = "match" /\ err = "none"
    /\ MatchTable = ScanAcTable
    /\ Len(returned) >= 3
    /\ returned[2].val = 177 /\ returned[3].val = 0
    /\ Len(bits_out) = 7

---------------------------------------------------------------------------
(* BitStream.read_value called on its own: a client reads values of the    *)
(* sizes 0..11 from a payload.  length is the argument of the last call.   *)

ValueSizes == 0..11

\* the bytes of the payloads drawn: zeros, ones with their follower, mixed bits
ValueBytes == {0, 255, 165}

InitValue ==
    /\ f \in SeqsUpTo(ValueBytes, MaxPayload)
    /\ pos = 0
    /\ IdleBitStream /\ IdleParse /\ IdleScan /\ IdleDecoder /\ IdleWalk
    /\ pc = "value" /\ err = "none"
    /\ metadata = DefaultMetadata
    /\ returned = <<>> /\ stages = <<>> /\ raw_mcu = <<>> /\ sampled = <<>>

\* one call of read_value
ValueCall ==
    /\ pc = "value" /\ err = "none"
    /\ Len(returned) < MaxCalls
    /\ \E size \in ValueSizes :
          LET v == ReadValue(Reader, size)
          IN  /\ SetReader(v)
              /\ err' = v.failed
              /\ length' = size
              /\ returned' = IF v.failed = "none"
                             THEN Append(returned, [arg |-> size, val |-> v.val])
                             ELSE returned
    /\ UNCHANGED <<f, pc, metadata, bytes_remaining, num_components, comp_n, max_h_sampling,
                   max_v_sampling, eof, seg, scanVars, decVars, walkVars, stages, raw_mcu, sampled>>

NextValue == ValueCall

SpecValue == InitValue /\ [][NextValue]_vars

\* the value the magnitude m of s bits stands for
SignExtended(s, m) ==
    IF s = 0 THEN 0
    ELSE IF m >= Pow2(s - 1) THEN m
    ELSE m - (Pow2(s) - 1)

\* C25: a call of read_value with size S consumes the next S bits and returns,
\* for their magnitude M read most significant bit first, M when M >= 2^(S-1)
\* and M - (2^S - 1) otherwise; with S = 0 it returns 0 and consumes nothing.
\* Every value returned for S >= 1 lies in -(2^S - 1)..-(2^(S-1)) or in
\* 2^(S-1)..2^S - 1.
ReadValueSignExtends ==
    /\ [][(pc = "value" /\ err = "none") =>
            \A up \in {Upcoming(Reader, length')} :
                IF Len(up) = length'
                THEN /\ err' = "none"
                     /\ returned' = Append(returned,
                           [arg |-> length', val |-> SignExtended(length', BitsValue(up))])
                     /\ bits_out' = bits_out \o up
                ELSE err' = "EOFError" /\ returned' = returned]_vars
    /\ [](pc = "value" =>
            \A k \in 1..Len(returned) :
                \/ returned[k].arg = 0 /\ returned[k].val = 0
                \/ /\ returned[k].arg >= 1
                   /\ \/ returned[k].val \in
                            (0 - (Pow2(returned[k].arg) - 1))..(0 - Pow2(returned[k].arg - 1))
                      \/ returned[k].val \in
                            Pow2(returned[k].arg - 1)..(Pow2(returned[k].arg) - 1))

\* a negative value of 11 bits read behind a positive value of 3 bits
ReadValueSignExtendsWitness ==
    /\ pc = "value" /\ err = "none"
    /\ Len(returned) = 2
    /\ returned[1].arg = 3 /\ returned[1].val > 0
    /\ returned[2].arg = 11 /\ returned[2].val < 0
    /\ Len(bits_out) = 14

---------------------------------------------------------------------------
(* MCUWrap (decoder.py): dequantize, inverse_zigzag_scan, idct and decode. *)
(* mcu is self.mcu.  decode runs its three calls one step each; a client   *)
(* may also call inverse_zigzag_scan on its own, as show_all_stage does.   *)
(* The real-valued transform of idct is not computed: the block it leaves  *)
(* is kept as the term [idct_of |-> F] of its input F.                     *)

\* the table ZZ with its rows and columns exchanged
ZZTransposed ==
    << << 0,  2,  3,  9, 10, 20, 21, 35>>,
       << 1,  4,  8, 11, 19, 22, 34, 36>>,
       << 5,  7, 12, 18, 23, 33, 37, 48>>,
       << 6, 13, 17, 24, 32, 38, 47, 49>>,
       <<14, 16, 25, 31, 39, 46, 50, 57>>,
       <<15, 26, 30, 40, 45, 51, 56, 58>>,
       <<27, 29, 41, 44, 52, 55, 59, 62>>,
       <<28, 42, 43, 53, 54, 60, 61, 63>> >>

ZZ ==
    << << 0,  1,  5,  6, 14, 15, 27, 28>>,
       << 2,  4,  7, 13, 16, 26, 29, 42>>,
       << 3,  8, 12, 17, 25, 30, 41, 43>>,
       << 9, 11, 18, 24, 31, 40, 44, 53>>,
       <<10, 19, 23, 32, 39, 45, 52, 54>>,
       <<20, 22, 33, 38, 46, 51, 55, 60>>,
       <<21, 34, 37, 47, 50, 56, 59, 61>>,
       <<35, 36, 48, 49, 57, 58, 62, 63>> >>

\* tmp[r][c] = raw_block[ZZ[c][r] // 8][ZZ[c][r] % 8]
InverseZigzagMirrored(raw_block) ==
    [r \in 1..BlockRows |-> [c \in 1..BlockRows |-> Coefficient(raw_block, ZZ[c][r])]]

\* tmp[r][c] = raw_block[z_index // 8][z_index % 8] with z_index = ZZ[r][c]
InverseZigzagBlock(raw_block) ==
    [r \in 1..BlockRows |-> [c \in 1..BlockRows |-> Coefficient(raw_block, ZZ[r][c])]]

\* the loops over i, v, h of inverse_zigzag_scan
InverseZigzagScan(m) ==
    [i \in 1..Len(m) |->
        [v \in 1..Len(m[i]) |->
            [h \in 1..Len(m[i][v]) |-> InverseZigzagBlock(m[i][v][h])]]]

\* quant_table[c * 8 + r]
ColumnFirst(r, c) == c * 8 + r

\* quant_table[r * 8 + c]
QuantIndex(r, c) == r * 8 + c

\* self.mcu[i][v][h][r][c] *= quant_table[r * 8 + c]
DequantizeBlock(blk, quant_table) ==
    [r \in 1..BlockRows |->
        [c \in 1..BlockRows |-> blk[r][c] * quant_table[QuantIndex(r - 1, c - 1) + 1]]]

\* the loops over i, v, h of dequantize
Dequantize(md, tables, m) ==
    [i \in 1..Len(m) |->
        [v \in 1..Len(m[i]) |->
            [h \in 1..Len(m[i][v]) |->
                DequantizeBlock(m[i][v][h],
                                tables[md.sof_info.components[i].quantization_table_id + 1])]]]

\* IDCT_2D_RowColumn(block_data).solve(), uninterpreted
Pixels(block_data) == [idct_of |-> block_data]

\* the loops over i, v, h of idct
Idct(m) ==
    [i \in 1..Len(m) |->
        [v \in 1..Len(m[i]) |-> [h \in 1..Len(m[i][v]) |-> Pixels(m[i][v][h])]]]

\* the blocks an MCU is filled with: all positions different, a few set, none set
BlockPatterns ==
    { [r \in 1..BlockRows |-> [c \in 1..BlockRows |-> (r - 1) * 8 + c]],
      SetCoefficient(SetCoefficient(SetCoefficient(ZeroBlock, 0, 5), 2, 0 - 3), 5, 7),
      ZeroBlock }

\* the MCU read_mcu returns for a frame, component k filled with blocks[k]
McuWith(md, blocks) ==
    [k \in 1..3 |->
        [bv \in 1..md.sof_info.components[k].vertical_sampling |->
            [bh \in 1..md.sof_info.components[k].horizontal_sampling |-> blocks[k]]]]

\* quantization tables 0 and 1 loaded with different values at every index
PipelineTables ==
    { [t \in 1..TableCount |->
          [k \in 1..TableLen |-> IF t = 1 THEN k ELSE IF t = 2 THEN 100 - k ELSE 0]],
      [t \in 1..TableCount |->
          [k \in 1..TableLen |-> IF t = 1 THEN 2 ELSE IF t = 2 THEN 3 * k ELSE 0]] }

InitWrap ==
    /\ IdleFile /\ IdleBitStream /\ IdleParse /\ IdleDecoder
    /\ pc \in {"decode", "client"} /\ err = "none"
    /\ metadata \in {FrameMetadata(samp, 16, 8) : samp \in Samplings}
    /\ quantization_tables \in PipelineTables
    /\ app_info = DefaultAppInfo /\ marker = 0 /\ markers_seen = <<>> /\ cut = -1
    /\ tables_loaded = {<<"dqt", 0>>, <<"dqt", 1>>}
    /\ \E b1 \in BlockPatterns, b2 \in BlockPatterns, b3 \in BlockPatterns :
          mcu = McuWith(metadata, <<b1, b2, b3>>)
    /\ raw_mcu = mcu /\ sampled = <<>>
    /\ stages = <<>> /\ returned = <<>>
    /\ loop_r = 0 /\ loop_c = 0 /\ loop_i = 0 /\ loop_v = 0 /\ loop_h = 0
    /\ idx = 0 /\ block = <<>>
    /\ row_blocks = <<>> /\ comp_data = <<>>
    /\ row_mcus = <<>> /\ mcus = <<>>
    /\ dc_diffs = << <<>>, <<>>, <<>> >>
    /\ stores = <<>>
    /\ ac_exit = "none"

WrapUnchanged ==
    UNCHANGED <<fileVars, bsVars, err, metadata, parseVars, loop_r, loop_c, loop_i, loop_v,
                loop_h, idx, block, row_blocks, comp_data, row_mcus, mcus, dc_diffs, stores,
                ac_exit, decVars, walkVars, returned, raw_mcu, sampled>>

\* decode: self.dequantize()
DequantizeStep ==
    /\ pc = "decode" /\ err = "none"
    /\ mcu' = Dequantize(metadata, quantization_tables, mcu)
    /\ stages' = Append(stages, "dequantize")
    /\ pc' = "decode_zigzag"
    /\ WrapUnchanged

\* decode: self.inverse_zigzag_scan(); or the call of a client
InverseZigzagStep ==
    /\ err = "none"
    /\ \/ pc = "decode_zigzag" /\ pc' = "decode_idct"
       \/ pc = "client" /\ Len(stages) < MaxCalls /\ pc' = pc
    /\ mcu' = InverseZigzagScan(mcu)
    /\ stages' = Append(stages, "inverse_zigzag_scan")
    /\ WrapUnchanged

\* decode: self.idct()
IdctStep ==
    /\ pc = "decode_idct" /\ err = "none"
    /\ mcu' = Idct(mcu)
    /\ stages' = Append(stages, "idct")
    /\ pc' = "decoded"
    /\ WrapUnchanged

NextWrap == DequantizeStep \/ InverseZigzagStep \/ IdctStep

SpecWrap == InitWrap /\ [][NextWrap]_vars

---------------------------------------------------------------------------
(* Properties of MCUWrap.                                                  *)

\* the cell (row, column), from 1, whose entry of ZZ is k
ZigzagCell(k) ==
    CHOOSE cell \in (1..BlockRows) \X (1..BlockRows) : ZZ[cell[1]][cell[2]] = k

\* the forward zig-zag scan: linear index k receives the value of the cell of k
ZigzagBlock(blk) ==
    [r \in 1..BlockRows |->
        [c \in 1..BlockRows |->
            LET cell == ZigzagCell((r - 1) * BlockRows + (c - 1))
            IN  blk[cell[1]][cell[2]]]]

\* the forward scan applied n times to every block of an MCU
RECURSIVE ZigzagTimes(_, _)
ZigzagTimes(m, n) ==
    IF n = 0 THEN m
    ELSE ZigzagTimes([i \in 1..Len(m) |->
                         [v \in 1..Len(m[i]) |->
                             [h \in 1..Len(m[i][v]) |-> ZigzagBlock(m[i][v][h])]]], n - 1)

\* C21 as claimed: two calls of inverse_zigzag_scan leave every block as it was.
InverseZigzagInvolution ==
    (pc = "client" /\ Len(stages) = 2) => mcu = raw_mcu

\* C21 amended: inverse_zigzag_scan rearranges the 64 values of each block, and
\* the forward zig-zag scan undoes it: after n calls, n forward scans of every
\* block give back the MCU the calls started from.
ZigzagRoundTrip ==
    pc = "client" => ZigzagTimes(mcu, Len(stages)) = raw_mcu

\* two calls have run and a block differs from the block they started from
ZigzagRoundTripWitness ==
    /\ pc = "client" /\ stages = <<"inverse_zigzag_scan", "inverse_zigzag_scan">>
    /\ mcu # raw_mcu
    /\ ZigzagTimes(mcu, 1) # raw_mcu

\* the (component, row, column) of every block of an MCU
BlocksOf(m) ==
    {<<i, v, h>> \in (1..Len(m)) \X (1..MaxSamp) \X (1..MaxSamp) :
        v <= Len(m[i]) /\ h <= Len(m[i][v])}

SameShape(m, n) ==
    /\ Len(m) = Len(n)
    /\ \A i \in 1..Len(m) :
          /\ Len(m[i]) = Len(n[i])
          /\ \A v \in 1..Len(m[i]) : Len(m[i][v]) = Len(n[i][v])

\* entry k of the quantization table component i (from 1) declares
DeclaredQuant(i, k) ==
    quantization_tables[metadata.sof_info.components[i].quantization_table_id + 1][k + 1]

\* blk holds, at the cell of every zig-zag index k, the raw coefficient of
\* index k times entry k of the table of component i
DequantizedThenPlaced(blk, raw_block, i) ==
    \A k \in 0..(BlockSize - 1) :
        blk[ZigzagCell(k)[1]][ZigzagCell(k)[2]] = Coefficient(raw_block, k) * DeclaredQuant(i, k)

\* C26: decode runs dequantize, inverse_zigzag_scan and idct in that order, each
\* once: after the first call every block holds at linear index k its raw
\* coefficient times entry k of the quantization table its component declares;
\* the second call moves those products to their cells; the third transforms
\* that block.
DecodeStages ==
    /\ pc \in {"decode", "decode_zigzag", "decode_idct", "decoded"} => SameShape(mcu, raw_mcu)
    /\ pc = "decode" => stages = <<>> /\ mcu = raw_mcu
    /\ pc = "decode_zigzag" =>
          /\ stages = <<"dequantize">>
          /\ \A b \in BlocksOf(mcu) : \A k \in 0..(BlockSize - 1) :
                Coefficient(mcu[b[1]][b[2]][b[3]], k)
                   = Coefficient(raw_mcu[b[1]][b[2]][b[3]], k) * DeclaredQuant(b[1], k)
    /\ pc = "decode_idct" =>
          /\ stages = <<"dequantize", "inverse_zigzag_scan">>
          /\ \A b \in BlocksOf(mcu) :
                DequantizedThenPlaced(mcu[b[1]][b[2]][b[3]], raw_mcu[b[1]][b[2]][b[3]], b[1])
    /\ pc = "decoded" =>
          /\ stages = <<"dequantize", "inverse_zigzag_scan", "idct">>
          /\ \A b \in BlocksOf(mcu) :
                /\ DOMAIN mcu[b[1]][b[2]][b[3]] = {"idct_of"}
                /\ DequantizedThenPlaced(mcu[b[1]][b[2]][b[3]].idct_of,
                                         raw_mcu[b[1]][b[2]][b[3]], b[1])

\* decode has finished on an MCU of two luma blocks whose components use different
\* tables, and the products are not all zero
DecodeStagesWitness ==
    /\ pc = "decoded"
    /\ Len(mcu[1][1]) = 2
    /\ mcu[1][1][2].idct_of[1][3] # 0
    /\ mcu[2][1][1].idct_of[2][1] # 0
    /\ DeclaredQuant(1, 5) # DeclaredQuant(2, 5)

\* The zig-zag traversal of the 15 anti-diagonals d = row + column of the 8x8
\* grid (rows and columns from 0): the diagonals in increasing order, an odd one
\* from its top-right cell down (row increasing), an even one from its
\* bottom-left cell up (row decreasing).
Diagonals == 0..(2 * (BlockRows - 1))

FirstRow(d) == IF d < BlockRows THEN 0 ELSE d - (BlockRows - 1)

LastRow(d) == IF d < BlockRows THEN d ELSE BlockRows - 1

RECURSIVE CellsBefore(_)
CellsBefore(d) ==
    IF d = 0 THEN 0 ELSE CellsBefore(d - 1) + (LastRow(d - 1) - FirstRow(d - 1) + 1)

\* the number of cells the traversal visits before (r, c)
TraversalRank(r, c) ==
    CellsBefore(r + c)
        + (IF (r + c) % 2 = 1 THEN r - FirstRow(r + c) ELSE LastRow(r + c) - r)

\* the cell (row, column from 0) the traversal visits k-th
TraversalCell(k) ==
    CHOOSE cell \in (0..(BlockRows - 1)) \X (0..(BlockRows - 1)) :
        TraversalRank(cell[1], cell[2]) = k

\* the ZZ table agrees with the traversal, which visits every cell once
ZZIsTraversal ==
    /\ \A r \in 0..(BlockRows - 1), c \in 0..(BlockRows - 1) :
          ZZ[r + 1][c + 1] = TraversalRank(r, c)
    /\ {ZZ[r][c] : r \in 1..BlockRows, c \in 1..BlockRows} = 0..(BlockSize - 1)
    /\ \A a \in (1..BlockRows) \X (1..BlockRows), b \in (1..BlockRows) \X (1..BlockRows) :
          ZZ[a[1]][a[2]] = ZZ[b[1]][b[2]] => a = b
    /\ [k \in 1..6 |-> TraversalCell(k - 1)]
          = << <<0, 0>>, <<0, 1>>, <<1, 0>>, <<2, 0>>, <<1, 1>>, <<0, 2>> >>
    /\ TraversalCell(BlockSize - 1) = <<BlockRows - 1, BlockRows - 1>>

\* one call of inverse_zigzag_scan puts the value of linear index k of every
\* block at the cell the traversal visits k-th
ScanFollowsTraversal ==
    (stages' = Append(stages, "inverse_zigzag_scan")) =>
        /\ SameShape(mcu', mcu)
        /\ \A b \in BlocksOf(mcu) : \A k \in 0..(BlockSize - 1) :
              mcu'[b[1]][b[2]][b[3]][TraversalCell(k)[1] + 1][TraversalCell(k)[2] + 1]
                  = Coefficient(mcu[b[1]][b[2]][b[3]], k)

\* C27: inverse_zigzag_scan moves the value at linear index k to the cell the
\* zig-zag traversal of the 15 anti-diagonals visits k-th, beginning (0,0), (0,1),
\* (1,0), (2,0), (1,1), (0,2) and ending at (7,7); ZZ is a bijection from the 64
\* cells onto 0..63 and equals that traversal.
ZigzagIsStandard == [](ZZIsTraversal) /\ [][ScanFollowsTraversal]_vars

\* inverse_zigzag_scan has run inside decode on a block of 64 distinct products:
\* the value of index 2 is at (1, 0) and the value of index 3 at (2, 0)
ZigzagIsStandardWitness ==
    /\ pc = "decode_idct"
    /\ quantization_tables[1][1] = 2
    /\ mcu[1][1][1][1][1] = 2 /\ mcu[1][1][1][1][2] = 4
    /\ mcu[1][1][1][2][1] = 6 /\ mcu[1][1][1][3][1] = 8
    /\ mcu[1][1][1][BlockRows][BlockRows] = 2 * BlockSize

---------------------------------------------------------------------------
(* Properties of toRGB.                                                    *)

\* Hi divides max_h and Vi divides max_v for component id
FactorsDivide(md, id) ==
    /\ md.sof_info.components[id].vertical_sampling > 0
    /\ md.sof_info.components[id].horizontal_sampling > 0
    /\ md.sof_info.max_vertical_sampling % md.sof_info.components[id].vertical_sampling = 0
    /\ md.sof_info.max_horizontal_sampling % md.sof_info.components[id].horizontal_sampling = 0

\* the read <<block row, block column, row, column>> toRGB made for pixel (y, x)
\* of the tile and a component
ReadAt(reads, y, x) ==
    <<reads.rows[y + 1][1], reads.cols[x + 1][1], reads.rows[y + 1][2], reads.cols[x + 1][2]>>

\* n is the integer quotient of a by b: n * b <= a < (n + 1) * b
IsQuotient(n, a, b) == n * b <= a /\ a < (n + 1) * b

\* the read <<block row, block column, row, column>> is the one claimed for
\* pixel (y, x) and component factors V, H
ReadIsClaimed(read, y, x, V, H, max_v, max_h) ==
    /\ read[1] \in 0..(V - 1) /\ read[2] \in 0..(H - 1)
    /\ read[3] \in 0..7 /\ read[4] \in 0..7
    /\ IsQuotient(8 * read[1] + read[3], y * V, max_v)
    /\ IsQuotient(8 * read[2] + read[4], x * H, max_h)

\* the pixels of the rectangle of max_v/V rows and max_h/H columns that sample
\* (vy, vx) of the component covers all read that sample
RectangleReads(reads, vy, vx, V, H, max_v, max_h) ==
    \A dy \in 0..((max_v \div V) - 1), dx \in 0..((max_h \div H) - 1) :
        /\ vy * (max_v \div V) + dy < 8 * max_v
        /\ vx * (max_h \div H) + dx < 8 * max_h
        /\ ReadAt(reads, vy * (max_v \div V) + dy, vx * (max_h \div H) + dx)
              = <<vy \div 8, vx \div 8, vy % 8, vx % 8>>

\* the pixel (y, x) lies in the rectangle of the sample it reads
InsideRectangle(read, y, x, V, H, max_v, max_h) ==
    /\ (y \div (max_v \div V)) = 8 * read[1] + read[3]
    /\ (x \div (max_h \div H)) = 8 * read[2] + read[4]

\* C28: for every pixel (y, x) of the tile and every component whose factors
\* divide the maxima, toRGB reads sample (vy mod 8, vx mod 8) of block (vy div 8,
\* vx div 8) with vy = (y*Vi) div max_v and vx = (x*Hi) div max_h; the block lies
\* inside the Vi x Hi array of the component, and the pixels that read one sample
\* are exactly a rectangle of max_v/Vi rows and max_h/Hi columns.
UpsamplingAddresses ==
    /\ err # "IndexError"
    /\ sampled # <<>> =>
          \A id \in 1..3 : FactorsDivide(metadata, id) =>
             \A V \in {metadata.sof_info.components[id].vertical_sampling},
                H \in {metadata.sof_info.components[id].horizontal_sampling},
                max_v \in {metadata.sof_info.max_vertical_sampling},
                max_h \in {metadata.sof_info.max_horizontal_sampling} :
                /\ Len(sampled[id].rows) = 8 * max_v
                /\ Len(sampled[id].cols) = 8 * max_h
                /\ \A y \in 0..(8 * max_v - 1), x \in 0..(8 * max_h - 1) :
                      \A read \in {ReadAt(sampled[id], y, x)} :
                         /\ ReadIsClaimed(read, y, x, V, H, max_v, max_h)
                         /\ InsideRectangle(read, y, x, V, H, max_v, max_h)
                /\ \A vy \in 0..(8 * V - 1), vx \in 0..(8 * H - 1) :
                      RectangleReads(sampled[id], vy, vx, V, H, max_v, max_h)

\* toRGB has run on a 4:2:0 frame: the four pixels (2..3, 4..5) read chroma
\* sample (1, 2) of block (0, 0), pixel (9, 3) reads luma sample (1, 3) of
\* block (1, 0)
UpsamplingAddressesWitness ==
    /\ pc = "decoder_done" /\ err = "none"
    /\ metadata.sof_info.max_vertical_sampling = 2
    /\ metadata.sof_info.max_horizontal_sampling = 2
    /\ \A y \in 2..3, x \in 4..5 : ReadAt(sampled[2], y, x) = <<0, 0, 1, 2>>
    /\ ReadAt(sampled[2], 4, 4) # <<0, 0, 1, 2>>
    /\ ReadAt(sampled[1], 9, 3) = <<1, 0, 1, 3>>

---------------------------------------------------------------------------
(* Termination of data_reader.                                             *)

\* data_reader on a finite file: the marker loop with its segment parsers, and
\* read_mcus with the rest of the loop from the first byte after an SOS header.
InitReader == InitWalk \/ InitScan

NextReader == NextWalk \/ NextScan

\* read_mcus has been called and has neither returned nor raised; one of its
\* steps is enabled exactly then
Decoding == err = "none" /\ pc \in {"read_mcus", "h", "ac", "block_end"}

ReadMcusStep == ScanStart \/ ReadBlockDc \/ ReadBlockAc \/ AcLoopFull \/ EndBlock

\* The interpreter runs the one thread of the program on: a step that can be
\* taken is taken.  For the steps of read_mcus weak fairness is written out,
\* with Decoding for ENABLED <<ReadMcusStep>>_vars.
SpecReaderFair ==
    /\ InitReader /\ [][NextReader]_vars
    /\ WF_vars(NextWalk)
    /\ WF_vars(DataReaderTail \/ DecoderStart \/ DecodeMCU)
    /\ ([]<>(~Decoding) \/ []<><<ReadMcusStep>>_vars)

\* data_reader has returned (and decoder may have gone on), or the walk has
\* called parse_dht or parse_sos, which return or raise after reading counted
\* bytes (SpecDht, SpecSos)
ReaderReturned == pc \in {"returned", "decoder", "mcu", "decoder_done", "dht", "sos"}

ReaderRaised == err # "none"

\* the bits the stream can still deliver
BitsLeft == 8 * (Len(f) - pos) + bit_count

\* r, c of read_mcus and i, v, h of read_mcu as one number, r the most significant
GridRank == (((loop_r * 8 + loop_c) * 8 + loop_i) * 8 + loop_v) * 8 + loop_h

\* what an iteration of each loop does, when it ends without an exception
LoopsAdvance ==
    /\ (pc = "walk" /\ pc' = "walk") => pos' > pos
    /\ (pc = "skip" /\ pc' = "walk") => pos' >= pos
    /\ (pc = "dqt" /\ pc' = "dqt" /\ err' = "none") =>
          pos' > pos /\ bytes_remaining' < bytes_remaining
    /\ (pc = "h" /\ err' = "none") => BitsLeft' < BitsLeft /\ pc' = "ac"
    /\ (pc = "ac" /\ pc' = "ac" /\ err' = "none") =>
          BitsLeft' < BitsLeft /\ idx' > idx /\ idx' <= BlockSize
    /\ (pc = "block_end" /\ err' = "none") =>
          GridRank' > GridRank /\ loop_r' <= HMcus(metadata) /\ loop_c' <= WMcus(metadata)
    /\ (pc = "mcu" /\ err' = "none") =>
          \/ pc' = "decoder_done"
          \/ dec_h' * mcu_width_number + dec_w' > dec_h * mcu_width_number + dec_w
    /\ pos' >= pos /\ pos' <= Len(f')

====
